---- MODULE Spec2Model ----
(***************************************************************************)
(* MEGA-FLOWZ: the pyramid engine (pyramid_engine.py), its multi-symbol     *)
(* cache, the collector loop (main_launcher.py) and the request handlers   *)
(* of the web dashboard (web_dashboard.py).                                *)
(*                                                                         *)
(* Times are minutes since an epoch (pandas Timestamps in the source).     *)
(* Prices are integers in units of 1e-6 (floats in the source).            *)
(***************************************************************************)
EXTENDS Integers, Sequences, FiniteSets, TLC

VARIABLES
    symbol,             \* PyramidEngine.symbol
    pyramid_style,      \* PyramidEngine.pyramid_style
    pyramid_structure,  \* PyramidEngine.pyramid_structure
    base_tf,            \* PyramidEngine.base_tf
    current_symbol,     \* PyramidEngine.current_symbol
    pyramid_cache,      \* PyramidEngine.pyramid_cache : symbol -> pyramid
    raw_data_cache,     \* PyramidEngine.raw_data_cache : symbol -> raw data
    latest_pyramid,     \* PyramidEngine.latest_pyramid
    latest_raw_data,    \* PyramidEngine.latest_raw_data
    mt5_symbol,         \* MT5Connector.symbol
    launcher_symbol,    \* MainLauncher.symbol
    stop_event,         \* MainLauncher.stop_event
    requests,           \* the number of requests the server has accepted
    now,                \* the wall clock (datetime.now())
    pc,                 \* thread -> position in its code
    loc,                \* thread -> its local variables
    data,               \* the argument of a direct build_pyramid_json call
    built,              \* the value that call returned
    calls               \* the direct calls of other methods made so far

engine_vars == <<symbol, pyramid_style, pyramid_structure, base_tf, current_symbol>>
cache_vars  == <<pyramid_cache, raw_data_cache, latest_pyramid, latest_raw_data>>
thread_vars == <<mt5_symbol, launcher_symbol, stop_event, requests, pc, loc>>
build_vars  == <<data, built, calls>>
vars == <<engine_vars, cache_vars, thread_vars, now, build_vars>>

(***************************************************************************)
(* Bounds of the model.                                                    *)
(***************************************************************************)
\* Longest base series a direct build is given (one more than extract_count,
\* so that the truncation of the base series happens).
MaxBaseCandles == 11
\* Candles per timeframe a fetch returns (200 in the source).
MaxCandles == 2
\* Fetches the market-data source serves before the clock stops.
MaxFetches == 2
\* Requests the web server accepts.
MaxRequests == 2
\* Direct calls of the engine's cache methods in one run.
MaxCalls == 3
\* Longest series a direct get_chart_data call is given.
MaxChartCandles == 3
\* Period parameters in the query string of one chart-data request.
MaxArgs == 2
\* Longest series a direct calculate_momentum_analysis call is given.
MaxMomentumCandles == 2
\* Longest series a direct calculate_technical_indicators call is given.
MaxIndicatorCandles == 21
\* Most swing lows, and swing highs, of a series given to a direct
\* calculate_support_resistance call.
MaxSwings == 7

(***************************************************************************)
(* config.py                                                               *)
(***************************************************************************)
None == "None"

\* a float column holds <<v>> for the number v and <<>> for NaN
NaN == <<>>

Symbols == {"EURUSD", "GBPUSD"}

ALL_TIMEFRAMES == <<"D1", "H4", "H1", "M15", "M5", "M1">>

TIMEFRAME_DURATIONS ==
    [D1 |-> 1440, H4 |-> 240, H1 |-> 60, M15 |-> 15, M5 |-> 5, M1 |-> 1]

\* the display names are written without their emoji
PYRAMID_STYLES ==
    [scalper  |-> <<"Scalper",  <<"M15", "M5", "M1">> >>,
     intraday |-> <<"Intraday", <<"H1", "M15", "M5", "M1">> >>,
     swing    |-> <<"Swing",    <<"H4", "H1", "M15", "M5", "M1">> >>,
     daily    |-> <<"Daily",    <<"D1", "H4", "H1", "M15", "M5", "M1">> >>]

extract_count == 10

(***************************************************************************)
(* Helpers on sequences and dicts.                                         *)
(***************************************************************************)
Range(s) == {s[i] : i \in DOMAIN s}

Min(a, b) == IF a <= b THEN a ELSE b

\* d[k] = v on a Python dict
DictPut(d, k, v) == [x \in DOMAIN d \cup {k} |-> IF x = k THEN v ELSE d[x]]

\* del d[k]
\* a deletion that empties the dict
DictDel_all(d, k) == [x \in {} |-> d[x]]

\* del d[k]
DictDel(d, k) == [x \in DOMAIN d \ {k} |-> d[x]]

EmptyDict == [x \in {} |-> None]

\* df.iloc[:n]
ILoc(df, n) == SubSeq(df, 1, Min(n, Len(df)))

\* df[df["time"] == t].index[0]: the position of the first row with time t
RECURSIVE FirstIndexFrom(_, _, _)
FirstIndexFrom(df, t, i) ==
    IF df[i].time = t THEN i ELSE FirstIndexFrom(df, t, i + 1)

FirstIndex(df, t) == FirstIndexFrom(df, t, 1)

\* inserts row r into a sequence sorted by descending time, after the rows
\* with the same time (pandas sorts stably)
RECURSIVE InsertDesc(_, _)
InsertDesc(s, r) ==
    IF s = <<>> THEN <<r>>
    ELSE IF s[1].time >= r.time THEN <<s[1]>> \o InsertDesc(Tail(s), r)
    ELSE <<r>> \o s

\* df.sort_values("time", ascending=False).reset_index(drop=True)
RECURSIVE SortDesc(_)
SortDesc(s) ==
    IF s = <<>> THEN <<>>
    ELSE InsertDesc(SortDesc(SubSeq(s, 1, Len(s) - 1)), s[Len(s)])

(***************************************************************************)
(* Timestamps and their formats.                                           *)
(***************************************************************************)
MinutesPerDay == 1440
MinutesPerHour == 60

\* Timestamp.isoformat(): the date and the clock time, as <<day, hour, minute>>
isoformat(t) ==
    <<t \div MinutesPerDay, (t % MinutesPerDay) \div MinutesPerHour, t % MinutesPerHour>>

\* the timestamp an isoformat string stands for
fromisoformat(s) == s[1] * MinutesPerDay + s[2] * MinutesPerHour + s[3]

\* strftime("%Y-%m-%d")
FmtDate(t) == <<t \div MinutesPerDay>>

\* strftime("%H:%M"): the day is dropped
FmtClock(t) == <<(t % MinutesPerDay) \div MinutesPerHour, t % MinutesPerHour>>

end_min == [M1 |-> 0, M5 |-> 4, M15 |-> 14, H1 |-> 59, H4 |-> 239]

get_time_range(t, tf) ==
    IF tf = "D1" THEN <<FmtDate(t)>>
    ELSE IF tf = "M1" THEN <<FmtClock(t)>>
    ELSE <<FmtClock(t), FmtClock(t + end_min[tf])>>

\* round(x, 5) of a price held in units of 1e-6: to the nearest multiple of 10
\* (no price of the model ends in the digit 5, the one case where the float's
\* binary representation decides)
Round5(x) == ((x + 5) \div 10) * 10

(***************************************************************************)
(* The market-data source (MetaTrader 5, outside the repository): the bar  *)
(* of timeframe tf that opens at time t, for instrument sym.               *)
(***************************************************************************)
BasePrice(sym) == IF sym = "EURUSD" THEN 1100000 ELSE 1250000

Bar(sym, tf, t) ==
    LET k  == t \div TIMEFRAME_DURATIONS[tf]
        o  == BasePrice(sym) + 10 * (k % 3) + 4 * (k % 2)
        c  == BasePrice(sym) + 10 * ((k + 1) % 3) + 4 * (k % 2)
    IN  [time |-> t, open |-> o, close |-> c,
         high |-> (IF o >= c THEN o ELSE c) + 10 * (k % 2),
         low  |-> (IF o >= c THEN c ELSE o) - 10 * ((k + 1) % 2),
         tick_volume |-> 100 + (k % 7)]

\* mt5.copy_rates_from_pos(sym, tf, 0, n) at time at: the n most recent bars,
\* oldest first
copy_rates_from_pos(sym, tf, at, n) ==
    LET d    == TIMEFRAME_DURATIONS[tf]
        last == (at \div d) * d
    IN  [i \in 1..n |-> Bar(sym, tf, last - (n - i) * d)]

(***************************************************************************)
(* mt5_connector.py                                                        *)
(***************************************************************************)
EmptyFrame == <<>>

\* MT5Connector.fetch_timeframe_data: n = 0 stands for the source returning
\* nothing (None, replaced by an empty frame in fetch_all_timeframes)
fetch_timeframe_data(sym, tf, at, n) ==
    IF n = 0 THEN EmptyFrame
    ELSE SortDesc(copy_rates_from_pos(sym, tf, at, n))

\* MT5Connector.fetch_all_timeframes: avail[tf] is the number of candles the
\* source has for tf
fetch_all_timeframes(sym, at, avail) ==
    [tf \in Range(ALL_TIMEFRAMES) |-> fetch_timeframe_data(sym, tf, at, avail[tf])]

(***************************************************************************)
(* pyramid_engine.py: momentum analysis                                    *)
(***************************************************************************)
Dir(m) == IF m > 0 THEN "up" ELSE IF m < 0 THEN "down" ELSE "flat"

\* df["close"].shift(k) at row i
ShiftClose(df, i, k) == IF i - k >= 1 THEN <<df[i - k].close>> ELSE NaN

\* (close - close.shift(1)) - (close.shift(1) - close.shift(2)) at row i
MomentumAcceleration(df, i) ==
    IF ShiftClose(df, i, 1) = NaN \/ ShiftClose(df, i, 2) = NaN THEN NaN
    ELSE <<(df[i].close - ShiftClose(df, i, 1)[1])
           - (ShiftClose(df, i, 1)[1] - ShiftClose(df, i, 2)[1])>>

\* 0.00001, in the price unit of the model
Epsilon == 10

Abs(x) == IF x < 0 THEN -x ELSE x

\* a denominator that is used as it is
ReplaceZero_unguarded(x) == x

\* Series.replace(0, 0.00001), per element
ReplaceZero(x) == IF x = 0 THEN Epsilon ELSE x

\* a / b of two float columns, per element: the pair <<a, b>> stands for the
\* quotient, which is inf or NaN when b is 0 (pandas raises no error)
Quotient(a, b) == <<a, b>>

\* Series.abs() of a quotient
AbsQuotient(q) == <<Abs(q[1]), Abs(q[2])>>

\* PyramidEngine.calculate_momentum_analysis: the columns Momentum, Dir,
\* Momentum_Acceleration, Wick_Ratio and Body_Strength, row by row in the
\* order of df
calculate_momentum_analysis(df) ==
    [i \in 1..Len(df) |->
        [time |-> df[i].time, open |-> df[i].open, high |-> df[i].high,
         low |-> df[i].low, close |-> df[i].close,
         tick_volume |-> df[i].tick_volume,
         Momentum |-> df[i].close - df[i].open,
         Dir |-> Dir(df[i].close - df[i].open),
         Momentum_Acceleration |-> MomentumAcceleration(df, i),
         Wick_Ratio |->
             AbsQuotient(Quotient(df[i].high - df[i].close,
                                  ReplaceZero(df[i].close - df[i].low))),
         Body_Strength |->
             Quotient(Abs(df[i].close - df[i].open),
                      ReplaceZero(df[i].high - df[i].low))]]

\* PyramidEngine.get_momentum_summary: the MOM part of the text
get_momentum_summary(df, index) ==
    IF df[index].Momentum_Acceleration = NaN THEN [MOM |-> "--"]
    ELSE [MOM |-> df[index].Momentum_Acceleration[1]]

(***************************************************************************)
(* pyramid_engine.py: the pyramid builder                                  *)
(***************************************************************************)
\* the dict of one block, for row `row` of series df of timeframe tf
Block(tf, df, row, children) ==
    [tf |-> tf,
     time |-> isoformat(row.time),
     range |-> get_time_range(row.time, tf),
     O |-> Round5(row.open), H |-> Round5(row.high),
     L |-> Round5(row.low), C |-> Round5(row.close),
     volume |-> row.tick_volume,
     dir |-> row.Dir,
     momentum_summary |-> get_momentum_summary(df, FirstIndex(df, row.time)),
     children |-> children]

\* a window that also takes the candle at its end
ChildrenFrame_inclusive(df, start, end) ==
    SelectSeq(df, LAMBDA r : r.time >= start /\ r.time <= end)

\* the rows of df with start <= time < end
ChildrenFrame(df, start, end) ==
    SelectSeq(df, LAMBDA r : r.time >= start /\ r.time < end)

\* a recursion that stops one level early
LastLevel_early(structure, level) == level + 2 >= Len(structure)

\* get_children's first test: the parent is on the last level of the structure
LastLevel(structure, level) == level + 1 >= Len(structure)

\* build_pyramid_json.get_children, structure being self.pyramid_structure
RECURSIVE get_children(_, _, _, _, _)
get_children(d, structure, parent_time, parent_tf, level) ==
    IF LastLevel(structure, level) THEN <<>>
    ELSE LET child_tf == structure[level + 2]
         IN  IF child_tf \notin DOMAIN d \/ d[child_tf] = EmptyFrame THEN <<>>
             ELSE LET df == d[child_tf]
                      children_df ==
                          ChildrenFrame(df, parent_time,
                              parent_time + TIMEFRAME_DURATIONS[parent_tf])
                  IN  [i \in 1..Len(children_df) |->
                          Block(child_tf, df, children_df[i],
                              get_children(d, structure, children_df[i].time,
                                           child_tf, level + 1))]

\* Python's truth test of a str-or-None value
Falsy(x) == x = None \/ x = ""

\* a build that forgets what it was configured with
create_empty_pyramid_unknown(cfg, t) ==
    [symbol |-> "Unknown", style |-> "Unknown",
     structure |-> cfg.pyramid_structure, generated |-> t, blocks |-> <<>>]

\* PyramidEngine._create_empty_pyramid; cfg holds the engine's fields
create_empty_pyramid(cfg, t) ==
    [symbol |-> IF Falsy(cfg.symbol) THEN "Unknown" ELSE cfg.symbol,
     style |-> IF Falsy(cfg.pyramid_style) THEN "Unknown" ELSE cfg.pyramid_style,
     structure |-> cfg.pyramid_structure,
     generated |-> t,
     blocks |-> <<>>]

\* root blocks of the whole base series
BaseBlocks_untruncated(cfg, d) ==
    LET base_df == d[cfg.base_tf]
    IN  [i \in 1..Len(base_df) |->
            Block(cfg.base_tf, base_df, base_df[i],
                  get_children(d, cfg.pyramid_structure, base_df[i].time,
                               cfg.base_tf, 0))]

\* build_pyramid_json lines 209-224: one root block per row of base_df
RootBlocks(cfg, base_df, d) ==
    [i \in 1..Len(base_df) |->
        Block(cfg.base_tf, base_df, base_df[i],
              get_children(d, cfg.pyramid_structure, base_df[i].time,
                           cfg.base_tf, 0))]

\* the root blocks of build_pyramid_json: line 170, then lines 209-224
BaseBlocks(cfg, d) == RootBlocks(cfg, ILoc(d[cfg.base_tf], extract_count), d)

\* PyramidEngine.build_pyramid_json(data) at time t
build_pyramid_json(cfg, d, t) ==
    IF cfg.base_tf \notin DOMAIN d \/ d[cfg.base_tf] = EmptyFrame
    THEN create_empty_pyramid(cfg, t)
    ELSE [symbol |-> cfg.symbol,
          style |-> cfg.pyramid_style,
          structure |-> cfg.pyramid_structure,
          generated |-> t,
          blocks |-> BaseBlocks(cfg, d)]

\* the engine's configuration fields, as one method call reads them
EngineCfg ==
    [symbol |-> symbol, pyramid_style |-> pyramid_style,
     pyramid_structure |-> pyramid_structure, base_tf |-> base_tf]

(***************************************************************************)
(* Direct calls of build_pyramid_json: the engine is configured for a      *)
(* style, the call is given a map of annotated newest-first series.        *)
(***************************************************************************)
BuildStyles == {"scalper", "intraday"}

\* the times of a set, ascending
RECURSIVE Ascending(_)
Ascending(T) ==
    IF T = {} THEN <<>>
    ELSE LET m == CHOOSE x \in T : \A y \in T : x <= y
         IN  <<m>> \o Ascending(T \ {m})

\* the series of tf the source delivers when it has the bars that open at
\* the times T, annotated as the producer cycle annotates it
Series(sym, tf, T) ==
    LET ts == Ascending(T)
    IN  calculate_momentum_analysis(
            SortDesc([i \in 1..Len(ts) |-> Bar(sym, tf, ts[i])]))

\* the sets of bar times tried for level j of a structure: for the base
\* timeframe the n most recent bars, the oldest at time 0; for a finer one
\* the first and the last bar inside the parent bar at 0 and the first bar
\* after it
TimeOptions(structure, j) ==
    LET d == TIMEFRAME_DURATIONS[structure[j]]
    IN  IF j = 1
        THEN {{k * d : k \in 0..(n - 1)} : n \in 0..MaxBaseCandles}
        ELSE LET dp == TIMEFRAME_DURATIONS[structure[j - 1]]
             IN  SUBSET {0, dp - d, dp}

\* the maps given to build_pyramid_json: each timeframe of the structure from
\* level j on is absent, empty or holds one of the series above
RECURSIVE InputMaps(_, _, _)
InputMaps(sym, structure, j) ==
    IF j > Len(structure) THEN {EmptyDict}
    ELSE LET rest == InputMaps(sym, structure, j + 1)
         IN  rest \cup
             {DictPut(m, structure[j], Series(sym, structure[j], T)) :
                 m \in rest, T \in TimeOptions(structure, j)}

Threads == {"collector", "request"}

\* no request is being served
NoReq == [kind |-> "none", pair |-> None, style |-> None, tf |-> None]

\* the local variables of a thread outside a cycle and a request
NoLocals ==
    [req |-> NoReq,            \* the request being served
     initial |-> FALSE,        \* the cycle is _load_initial_data
     cur |-> None,             \* the symbol argument of update_symbol_data
     raw |-> EmptyDict,        \* raw_data
     ann |-> EmptyDict,        \* pyramid_data, the annotated series
     given |-> None,           \* self.pyramid_structure and self.base_tf when
                               \* build_pyramid_json was entered
     base_missing |-> FALSE,   \* build_pyramid_json took its first return
     base_df |-> <<>>,         \* base_df of build_pyramid_json
     blocks |-> <<>>,          \* blocks of build_pyramid_json
     pyr |-> EmptyDict,        \* pyramid_json
     cached |-> EmptyDict,     \* cached_raw_data of api_chart_data
     resp |-> <<>>]            \* the response of the request

\* the threads, the cache and the connector as they are in a direct call
QuietThreads ==
    /\ pyramid_cache = EmptyDict
    /\ raw_data_cache = EmptyDict
    /\ latest_pyramid = EmptyDict
    /\ latest_raw_data = EmptyDict
    /\ stop_event = FALSE
    /\ requests = 0
    /\ pc = [t \in Threads |-> "idle"]
    /\ loc = [t \in Threads |-> NoLocals]

\* PyramidEngine.configure_pyramid followed by the choice of the argument
InitBuild ==
    /\ \E sym \in Symbols, st \in BuildStyles :
          /\ symbol = sym
          /\ pyramid_structure = PYRAMID_STYLES[st][2]
          /\ pyramid_style = PYRAMID_STYLES[st][1]
          /\ base_tf = PYRAMID_STYLES[st][2][1]
          /\ current_symbol = sym
          /\ mt5_symbol = sym
          /\ launcher_symbol = sym
          /\ data \in InputMaps(sym, PYRAMID_STYLES[st][2], 1)
    /\ built = <<>>
    /\ calls = <<>>
    /\ now = 0
    /\ QuietThreads

\* pyramid_engine.build_pyramid_json(data)
Build ==
    /\ built = <<>>
    /\ built' = <<build_pyramid_json(EngineCfg, data, now)>>
    /\ UNCHANGED <<engine_vars, cache_vars, thread_vars, now, data, calls>>

NextBuild == Build

SpecBuild == InitBuild /\ [][NextBuild]_vars

(***************************************************************************)
(* Properties of a directly built pyramid.                                 *)
(***************************************************************************)
\* the blocks of a list of blocks and below, each with its level (roots: 1)
RECURSIVE BlocksAt(_, _)
BlocksAt(blocks, level) ==
    UNION {{<<level, blocks[i]>>} \cup BlocksAt(blocks[i].children, level + 1) :
              i \in DOMAIN blocks}

BuiltBlocks == IF built = <<>> THEN {} ELSE BlocksAt(built[1].blocks, 1)

\* the candles of timeframe tf in the argument of the build
Rows(tf) == IF tf \in DOMAIN data THEN Range(data[tf]) ELSE {}

\* the candles of the level below `level` whose time is in [t, t + d)
InWindow(level, t, d) ==
    IF level + 1 > Len(pyramid_structure) THEN {}
    ELSE {r \in Rows(pyramid_structure[level + 1]) : t <= r.time /\ r.time < t + d}

ChildTimes(b) == {fromisoformat(b.children[i].time) : i \in DOMAIN b.children}

\* the lists of sibling blocks of the built pyramid
SiblingLists ==
    IF built = <<>> THEN {}
    ELSE {built[1].blocks} \cup {lb[2].children : lb \in BuiltBlocks}

\* the number of levels below block b
RECURSIVE Height(_)
Height(b) ==
    IF b.children = <<>> THEN 0
    ELSE LET hs == {Height(b.children[i]) : i \in DOMAIN b.children}
         IN  1 + CHOOSE h \in hs : \A g \in hs : g <= h

BaseMissing == base_tf \notin DOMAIN data \/ data[base_tf] = EmptyFrame

\* C6: the children of a block with time t and duration d are exactly the
\* candles of the next level with t <= time < t + d, one child per candle,
\* and two siblings whose windows do not overlap share no child.
C6_Containment ==
    /\ \A lb \in BuiltBlocks :
          LET b == lb[2]
              t == fromisoformat(b.time)
              inside == InWindow(lb[1], t, TIMEFRAME_DURATIONS[b.tf])
          IN  /\ ChildTimes(b) = {r.time : r \in inside}
              /\ Len(b.children) = Cardinality(inside)
    /\ \A sibs \in SiblingLists : \A i, j \in DOMAIN sibs :
          LET ti == fromisoformat(sibs[i].time)
              tj == fromisoformat(sibs[j].time)
          IN  ti + TIMEFRAME_DURATIONS[sibs[i].tf] <= tj
                  => ChildTimes(sibs[i]) \cap ChildTimes(sibs[j]) = {}

\* a root with two children while the next level also holds a candle outside
\* the root's window
C6_Witness ==
    /\ built # <<>>
    /\ \E i \in DOMAIN built[1].blocks :
          LET b == built[1].blocks[i]
          IN  /\ Len(b.children) = 2
              /\ \E r \in Rows(pyramid_structure[2]) :
                    r.time = fromisoformat(b.time) + TIMEFRAME_DURATIONS[b.tf]

\* C7: the children of every block are sorted ascending by time.
C7_ChildrenAscending ==
    \A lb \in BuiltBlocks : \A i, j \in DOMAIN lb[2].children :
        i < j => fromisoformat(lb[2].children[i].time)
                     < fromisoformat(lb[2].children[j].time)

\* C8: a non-empty base series of n candles gives min(extract_count, n) root
\* blocks, the i-th block being the i-th row of the series.
C8_RootBound ==
    (built # <<>> /\ ~BaseMissing) =>
        LET blocks == built[1].blocks
            df == data[base_tf]
        IN  /\ Len(blocks) = Min(extract_count, Len(df))
            /\ \A i \in DOMAIN blocks :
                  /\ blocks[i].tf = base_tf
                  /\ fromisoformat(blocks[i].time) = df[i].time
                  /\ blocks[i].C = Round5(df[i].close)
                  /\ blocks[i].volume = df[i].tick_volume

\* a base series longer than extract_count has been built
C8_Witness ==
    /\ built # <<>>
    /\ ~BaseMissing
    /\ Len(data[base_tf]) > extract_count
    /\ Len(built[1].blocks) = extract_count

\* every candle of level `level` at time t has a candle of the next level in
\* its window, and so on down to the last level
RECURSIVE Populated(_, _)
Populated(level, t) ==
    level = Len(pyramid_structure)
    \/ LET inside == InWindow(level, t, TIMEFRAME_DURATIONS[pyramid_structure[level]])
       IN  /\ inside # {}
           /\ \A r \in inside : Populated(level + 1, r.time)

FullyPopulated ==
    /\ ~BaseMissing
    /\ \A i \in DOMAIN ILoc(data[base_tf], extract_count) :
          Populated(1, data[base_tf][i].time)

\* C9: no block lies more than N-1 levels below its root; when every level
\* has data inside every parent window every root has exactly N-1 levels
\* below it; a level whose series is absent or empty gives no children.
C9_Depth ==
    LET N == Len(pyramid_structure)
    IN  /\ \A lb \in BuiltBlocks : lb[1] <= N
        /\ (built # <<>> /\ FullyPopulated) =>
              \A i \in DOMAIN built[1].blocks : Height(built[1].blocks[i]) = N - 1
        /\ \A lb \in BuiltBlocks :
              (lb[1] < N /\ Rows(pyramid_structure[lb[1] + 1]) = {})
                  => lb[2].children = <<>>

\* a fully populated four-level pyramid has been built
C9_Witness ==
    /\ built # <<>>
    /\ FullyPopulated
    /\ Len(pyramid_structure) = 4
    /\ \E i \in DOMAIN built[1].blocks : Height(built[1].blocks[i]) = 3

\* C10: with the base timeframe absent or empty the build returns a pyramid
\* without blocks whose symbol, style, structure and generated fields are
\* those the engine was configured with.
C10_EmptyInput ==
    (built # <<>> /\ BaseMissing) =>
        built[1] = [symbol |-> symbol, style |-> pyramid_style,
                    structure |-> pyramid_structure, generated |-> now,
                    blocks |-> <<>>]

\* a build whose base series is empty while a finer series is not
C10_Witness ==
    /\ built # <<>>
    /\ base_tf \in DOMAIN data
    /\ data[base_tf] = EmptyFrame
    /\ \E tf \in DOMAIN data : data[tf] # EmptyFrame
    /\ built[1].blocks = <<>>

(***************************************************************************)
(* Properties of the annotation of a fetched series                        *)
(***************************************************************************)
\* the rows of df older than row i, the most recent first
OlderRows(df, i) ==
    SortDesc(SelectSeq(df, LAMBDA r : r.time < df[i].time))

\* C15: in every annotated series the momentum acceleration of a candle is
\* (close[t] - close[t-1]) - (close[t-1] - close[t-2]), t-1 and t-2 being
\* the two candles before it in time, and it is NaN exactly for the two
\* oldest candles.
C15_MomentumAcceleration ==
    \A tf \in DOMAIN data : \A i \in DOMAIN data[tf] :
        LET df == data[tf]
            older == OlderRows(df, i)
        IN  df[i].Momentum_Acceleration =
                IF Len(older) < 2 THEN NaN
                ELSE <<(df[i].close - older[1].close)
                       - (older[1].close - older[2].close)>>


(***************************************************************************)
(* The running system: the producer thread (MainLauncher:                  *)
(* _load_initial_data, then collector_loop) and a request thread of the    *)
(* Flask server, which is started before the initial load.  A thread may   *)
(* be preempted between any two of the steps below.                        *)
(***************************************************************************)
\* the clock when the system starts: MaxCandles + 1 daily bars exist
Epoch0 == (MaxCandles + 1) * MinutesPerDay

\* a fetch takes the clock one M15 bar further, so that two fetches of one
\* instrument return different series
ClockStep == TIMEFRAME_DURATIONS["M15"]

ClockEnd == Epoch0 + MaxFetches * ClockStep

\* the styles a settings update asks for
SettingStyles == {"scalper"}

\* the timeframes a chart request asks for
ChartTimeframes == {"M15"}

\* MT5Connector.configure_from_settings: the style used, daily when unknown
StyleKey(st) == IF st \in DOMAIN PYRAMID_STYLES THEN st ELSE "daily"

\* DEFAULT_SETTINGS
DefaultSymbol == "EURUSD"
DefaultStyle == "daily"

\* the state after phases 1 to 4 of MainLauncher.initialize_system
Init ==
    /\ symbol = DefaultSymbol
    /\ pyramid_structure = PYRAMID_STYLES[DefaultStyle][2]
    /\ pyramid_style = PYRAMID_STYLES[DefaultStyle][1]
    /\ base_tf = PYRAMID_STYLES[DefaultStyle][2][1]
    /\ current_symbol = DefaultSymbol
    /\ mt5_symbol = DefaultSymbol
    /\ launcher_symbol = DefaultSymbol
    /\ pyramid_cache = EmptyDict
    /\ raw_data_cache = EmptyDict
    /\ latest_pyramid = EmptyDict
    /\ latest_raw_data = EmptyDict
    /\ stop_event = FALSE
    /\ requests = 0
    /\ now = Epoch0
    /\ pc = [t \in Threads |-> IF t = "collector" THEN "fetch" ELSE "idle"]
    /\ loc = [t \in Threads |->
                 IF t = "collector" THEN [NoLocals EXCEPT !.initial = TRUE]
                 ELSE NoLocals]
    /\ data = EmptyDict
    /\ built = <<>>
    /\ calls = <<>>

\* where a thread goes when the call it is in returns
AfterBuild(t) == IF t = "collector" THEN "save_pyramid_data" ELSE "stj_cache"
AfterUpdate(t) == IF t = "collector" THEN "stj_cache" ELSE "respond"
AfterSave(t) == IF t = "collector" THEN "sleep" ELSE "usd_pyr"

\* the series of a fetch, each non-empty one annotated in place by
\* calculate_momentum_analysis
Annotated(raw) ==
    [tf \in DOMAIN raw |->
        IF raw[tf] = EmptyFrame THEN EmptyFrame
        ELSE calculate_momentum_analysis(raw[tf])]

\* pyramid_data of collector_loop and api_update_settings: the non-empty series
NonEmpty(frames) ==
    [tf \in {x \in DOMAIN frames : frames[x] # EmptyFrame} |-> frames[tf]]

\* fetch_all_timeframes and the annotation loop: collector_loop 184-192,
\* _load_initial_data 128-141, api_update_settings 209-216.  The dict
\* fetch_all_timeframes returns has six keys, so `if raw_data` is true.
Fetch(t) ==
    /\ pc[t] = "fetch"
    /\ now < ClockEnd
    /\ \E n \in {0, MaxCandles} :
          LET sym == IF t = "collector" THEN launcher_symbol ELSE mt5_symbol
              raw == Annotated(fetch_all_timeframes(sym, now + ClockStep,
                         [tf \in Range(ALL_TIMEFRAMES) |-> n]))
          IN  loc' = [loc EXCEPT ![t].raw = raw,
                                 ![t].ann = IF loc[t].initial THEN raw
                                            ELSE NonEmpty(raw)]
    /\ now' = now + ClockStep
    /\ pc' = [pc EXCEPT ![t] = "build_base"]
    /\ UNCHANGED <<engine_vars, cache_vars, mt5_symbol, launcher_symbol,
                   stop_event, requests, build_vars>>

\* the fetch or the annotation raises: collector_loop 208-210,
\* _load_initial_data 155-157, api_update_settings 235-237
FetchRaises(t) ==
    /\ pc[t] = "fetch"
    /\ pc' = [pc EXCEPT ![t] = IF t = "request" THEN "respond"
                                ELSE IF loc[t].initial THEN "sleep"
                                ELSE "backoff"]
    /\ loc' = [loc EXCEPT ![t].resp =
                  IF t = "request" THEN <<[error |-> "Fetch failed"]>> ELSE @]
    /\ UNCHANGED <<engine_vars, cache_vars, mt5_symbol, launcher_symbol,
                   stop_event, requests, now, build_vars>>

\* build_pyramid_json 167-171: the test of the base series and base_df,
\* which read self.base_tf
BuildBase(t) ==
    /\ pc[t] = "build_base"
    /\ LET d == loc[t].ann
           missing == base_tf \notin DOMAIN d \/ d[base_tf] = EmptyFrame
       IN  /\ loc' = [loc EXCEPT
                         ![t].given = [pyramid_structure |-> pyramid_structure,
                                       base_tf |-> base_tf],
                         ![t].base_missing = missing,
                         ![t].base_df = IF missing THEN <<>>
                                        ELSE ILoc(d[base_tf], extract_count)]
           /\ pc' = [pc EXCEPT ![t] = IF missing THEN "build_meta"
                                      ELSE "build_blocks"]
    /\ UNCHANGED <<engine_vars, cache_vars, mt5_symbol, launcher_symbol,
                   stop_event, requests, now, build_vars>>

\* build_pyramid_json 209-224: the loop over base_df, which reads
\* self.base_tf and, in get_children, self.pyramid_structure
BuildBlocks(t) ==
    /\ pc[t] = "build_blocks"
    /\ loc' = [loc EXCEPT ![t].blocks =
                  RootBlocks(EngineCfg, loc[t].base_df, loc[t].ann)]
    /\ pc' = [pc EXCEPT ![t] = "build_meta"]
    /\ UNCHANGED <<engine_vars, cache_vars, mt5_symbol, launcher_symbol,
                   stop_event, requests, now, build_vars>>

\* build_pyramid_json 226-234, or _create_empty_pyramid when the base series
\* is missing: the dict, which reads self.symbol, self.pyramid_style and
\* self.pyramid_structure
BuildMeta(t) ==
    /\ pc[t] = "build_meta"
    /\ loc' = [loc EXCEPT ![t].pyr =
                  IF loc[t].base_missing THEN create_empty_pyramid(EngineCfg, now)
                  ELSE [symbol |-> symbol, style |-> pyramid_style,
                        structure |-> pyramid_structure, generated |-> now,
                        blocks |-> loc[t].blocks]]
    /\ pc' = [pc EXCEPT ![t] = AfterBuild(t)]
    /\ UNCHANGED <<engine_vars, cache_vars, mt5_symbol, launcher_symbol,
                   stop_event, requests, now, build_vars>>

\* StorageLayer.save_pyramid_data: writes pyramid_<symbol>.json and returns
\* True, or False when the write fails; its callers drop the value
SavePyramidData(t) ==
    /\ pc[t] = "save_pyramid_data"
    /\ pc' = [pc EXCEPT ![t] = "usd_pyr"]
    /\ UNCHANGED <<engine_vars, cache_vars, mt5_symbol, launcher_symbol,
                   stop_event, requests, now, loc, build_vars>>

\* update_symbol_data line 75.  Its symbol argument is the pyramid's symbol
\* in update_dashboard_data and mt5_connector.symbol in api_update_settings.
UsdPyr(t) ==
    /\ pc[t] = "usd_pyr"
    /\ LET sym == IF t = "collector" THEN loc[t].pyr.symbol ELSE mt5_symbol
       IN  /\ pyramid_cache' = DictPut(pyramid_cache, sym, loc[t].pyr)
           /\ loc' = [loc EXCEPT ![t].cur = sym]
    /\ pc' = [pc EXCEPT ![t] = "usd_raw"]
    /\ UNCHANGED <<engine_vars, raw_data_cache, latest_pyramid, latest_raw_data,
                   mt5_symbol, launcher_symbol, stop_event, requests, now, build_vars>>

\* update_symbol_data line 76
UsdRaw(t) ==
    /\ pc[t] = "usd_raw"
    /\ raw_data_cache' = DictPut(raw_data_cache, loc[t].cur, loc[t].raw)
    /\ pc' = [pc EXCEPT ![t] = "usd_latest"]
    /\ UNCHANGED <<engine_vars, pyramid_cache, latest_pyramid, latest_raw_data,
                   mt5_symbol, launcher_symbol, stop_event, requests, now, loc, build_vars>>

\* update_symbol_data lines 79-83, and the return of the request
UsdLatest(t) ==
    /\ pc[t] = "usd_latest"
    /\ IF loc[t].cur = current_symbol
       THEN /\ latest_pyramid' = loc[t].pyr
            /\ latest_raw_data' = loc[t].raw
       ELSE UNCHANGED <<latest_pyramid, latest_raw_data>>
    /\ pc' = [pc EXCEPT ![t] = AfterUpdate(t)]
    /\ loc' = [loc EXCEPT ![t].resp =
                  IF t = "request" THEN <<[status |-> "success"]>> ELSE @]
    /\ UNCHANGED <<engine_vars, pyramid_cache, raw_data_cache, mt5_symbol,
                   launcher_symbol, stop_event, requests, now, build_vars>>

\* save_to_json lines 540-544
StjCache(t) ==
    /\ pc[t] = "stj_cache"
    /\ pyramid_cache' =
          IF Falsy(loc[t].pyr.symbol) THEN pyramid_cache
          ELSE DictPut(pyramid_cache, loc[t].pyr.symbol, loc[t].pyr)
    /\ latest_pyramid' = loc[t].pyr
    /\ pc' = [pc EXCEPT ![t] = "stj_files"]
    /\ UNCHANGED <<engine_vars, raw_data_cache, latest_raw_data, mt5_symbol,
                   launcher_symbol, stop_event, requests, now, loc, build_vars>>

\* save_to_json lines 547-555: both files are written
StjFiles(t) ==
    /\ pc[t] = "stj_files"
    /\ pc' = [pc EXCEPT ![t] = AfterSave(t)]
    /\ UNCHANGED <<engine_vars, cache_vars, mt5_symbol, launcher_symbol,
                   stop_event, requests, now, loc, build_vars>>

\* what update_dashboard_data returns from its handler (line 347)
DashboardFailed == <<[returned |-> FALSE]>>

\* an exception of save_to_json that leaves update_dashboard_data and is
\* caught by the handler of collector_loop
StjFilesRaises_propagates(t) ==
    /\ pc[t] = "stj_files"
    /\ pc' = [pc EXCEPT ![t] = IF t = "collector" THEN "backoff" ELSE "respond"]
    /\ loc' = [loc EXCEPT ![t].resp =
                  IF t = "request" THEN <<[error |-> "Fetch failed"]>>
                  ELSE DashboardFailed]
    /\ UNCHANGED <<engine_vars, cache_vars, mt5_symbol, launcher_symbol,
                   stop_event, requests, now, build_vars>>

\* save_to_json lines 547-553: open or json.dump raises.  update_dashboard_data
\* catches it (345-347) and returns False, which collector_loop ignores;
\* api_update_settings answers 500 (235-237) and does not reach
\* update_symbol_data.
StjFilesRaises(t) ==
    /\ pc[t] = "stj_files"
    /\ pc' = [pc EXCEPT ![t] = IF t = "collector" THEN "sleep" ELSE "respond"]
    /\ loc' = [loc EXCEPT ![t].resp =
                  IF t = "request" THEN <<[error |-> "Fetch failed"]>>
                  ELSE DashboardFailed]
    /\ UNCHANGED <<engine_vars, cache_vars, mt5_symbol, launcher_symbol,
                   stop_event, requests, now, build_vars>>

\* collector_loop 176-180: the sleep of fetch_interval and the tests of
\* stop_event around it
Sleep ==
    /\ pc["collector"] = "sleep"
    /\ pc' = [pc EXCEPT !["collector"] = IF stop_event THEN "done" ELSE "fetch"]
    /\ loc' = [loc EXCEPT !["collector"] = NoLocals]
    /\ UNCHANGED <<engine_vars, cache_vars, mt5_symbol, launcher_symbol,
                   stop_event, requests, now, build_vars>>

\* a handler that goes back to the try block without sleeping
Backoff_retry ==
    /\ pc["collector"] = "backoff"
    /\ pc' = [pc EXCEPT !["collector"] = "fetch"]
    /\ UNCHANGED <<engine_vars, cache_vars, mt5_symbol, launcher_symbol,
                   stop_event, requests, now, loc, build_vars>>

\* collector_loop 208-210: time.sleep(60) after an exception
Backoff ==
    /\ pc["collector"] = "backoff"
    /\ pc' = [pc EXCEPT !["collector"] = "sleep"]
    /\ UNCHANGED <<engine_vars, cache_vars, mt5_symbol, launcher_symbol,
                   stop_event, requests, now, loc, build_vars>>

(***************************************************************************)
(* web_dashboard.py: the request handlers                                  *)
(***************************************************************************)
Serve(kind, pair, style, tf, label) ==
    /\ pc["request"] = "idle"
    /\ requests < MaxRequests
    /\ requests' = requests + 1
    /\ loc' = [loc EXCEPT !["request"] =
                  [NoLocals EXCEPT !.req = [kind |-> kind, pair |-> pair,
                                            style |-> style, tf |-> tf]]]
    /\ pc' = [pc EXCEPT !["request"] = label]
    /\ UNCHANGED <<engine_vars, cache_vars, mt5_symbol, launcher_symbol,
                   stop_event, now, build_vars>>

\* GET /api/pyramid?pair=...
ApiPyramid == \E pair \in Symbols : Serve("pyramid", pair, None, None, "gp_check")

\* GET /api/chart-data/<timeframe>?pair=...
ApiChartData ==
    \E pair \in Symbols, tf \in ChartTimeframes :
        Serve("chart", pair, None, tf, "gr_check")

\* POST /api/update-settings
ApiUpdateSettings ==
    \E sym \in Symbols, st \in SettingStyles :
        Serve("settings", sym, st, None, "cfg_mt5")

\* get_pyramid_for_symbol line 52-53: the test and the return of a cached
\* pyramid
GpCheck ==
    /\ pc["request"] = "gp_check"
    /\ LET pair == loc["request"].req.pair
       IN  IF pair \in DOMAIN pyramid_cache
           THEN /\ loc' = [loc EXCEPT !["request"].resp = <<pyramid_cache[pair]>>]
                /\ pc' = [pc EXCEPT !["request"] = "respond"]
           ELSE /\ pc' = [pc EXCEPT !["request"] = "gp_create"]
                /\ UNCHANGED loc
    /\ UNCHANGED <<engine_vars, cache_vars, mt5_symbol, launcher_symbol,
                   stop_event, requests, now, build_vars>>

\* a placeholder that keeps the symbol the engine is configured with
EmptyPyramidFor_unnamed(pair) == create_empty_pyramid(EngineCfg, now)

\* the empty pyramid of get_pyramid_for_symbol lines 57-58
EmptyPyramidFor(pair) ==
    [create_empty_pyramid(EngineCfg, now) EXCEPT !.symbol = pair]

\* get_pyramid_for_symbol lines 56-60
GpCreate ==
    /\ pc["request"] = "gp_create"
    /\ LET pair == loc["request"].req.pair
       IN  /\ pyramid_cache' = DictPut(pyramid_cache, pair, EmptyPyramidFor(pair))
           /\ loc' = [loc EXCEPT !["request"].resp = <<EmptyPyramidFor(pair)>>]
    /\ pc' = [pc EXCEPT !["request"] = "respond"]
    /\ UNCHANGED <<engine_vars, raw_data_cache, latest_pyramid, latest_raw_data,
                   mt5_symbol, launcher_symbol, stop_event, requests, now, build_vars>>

\* the chart response for the series map it was given: symbol, timeframe and
\* the series of the timeframe
ChartResponse(pair, tf, cached_raw_data) ==
    [symbol |-> pair, timeframe |-> tf, series |-> cached_raw_data[tf]]

\* get_raw_data_for_symbol line 64-65 and, for a cached instrument, the rest
\* of api_chart_data
GrCheck ==
    /\ pc["request"] = "gr_check"
    /\ LET pair == loc["request"].req.pair
       IN  IF pair \in DOMAIN raw_data_cache
           THEN /\ loc' = [loc EXCEPT !["request"].resp =
                              <<ChartResponse(pair, loc["request"].req.tf,
                                              raw_data_cache[pair])>>]
                /\ pc' = [pc EXCEPT !["request"] = "respond"]
           ELSE /\ pc' = [pc EXCEPT !["request"] = "gr_create"]
                /\ UNCHANGED loc
    /\ UNCHANGED <<engine_vars, cache_vars, mt5_symbol, launcher_symbol,
                   stop_event, requests, now, build_vars>>

\* get_raw_data_for_symbol line 68
EmptyData == [tf \in Range(ALL_TIMEFRAMES) |-> EmptyFrame]

\* get_raw_data_for_symbol lines 68-70 and the rest of api_chart_data
GrCreate ==
    /\ pc["request"] = "gr_create"
    /\ LET pair == loc["request"].req.pair
       IN  /\ raw_data_cache' = DictPut(raw_data_cache, pair, EmptyData)
           /\ loc' = [loc EXCEPT !["request"].resp =
                         <<ChartResponse(pair, loc["request"].req.tf, EmptyData)>>]
    /\ pc' = [pc EXCEPT !["request"] = "respond"]
    /\ UNCHANGED <<engine_vars, pyramid_cache, latest_pyramid, latest_raw_data,
                   mt5_symbol, launcher_symbol, stop_event, requests, now, build_vars>>

\* a reader that looks up the pyramid and the series of a cached instrument
\* one after the other without being preempted in between
\* (get_pyramid_for_symbol line 53, get_raw_data_for_symbol line 65)
ReadEntry ==
    /\ pc["request"] = "idle"
    /\ requests < MaxRequests
    /\ requests' = requests + 1
    /\ \E pair \in DOMAIN pyramid_cache \cap DOMAIN raw_data_cache :
          loc' = [loc EXCEPT !["request"] =
                     [NoLocals EXCEPT
                         !.req = [kind |-> "entry", pair |-> pair,
                                  style |-> None, tf |-> None],
                         !.resp = <<[pyramid |-> pyramid_cache[pair],
                                     series |-> raw_data_cache[pair]]>>]]
    /\ pc' = [pc EXCEPT !["request"] = "respond"]
    /\ UNCHANGED <<engine_vars, cache_vars, mt5_symbol, launcher_symbol,
                   stop_event, now, build_vars>>

\* the response is sent and the handler's variables are dropped
Respond ==
    /\ pc["request"] = "respond"
    /\ pc' = [pc EXCEPT !["request"] = "idle"]
    /\ loc' = [loc EXCEPT !["request"] = NoLocals]
    /\ UNCHANGED <<engine_vars, cache_vars, mt5_symbol, launcher_symbol,
                   stop_event, requests, now, build_vars>>

\* configure_from_settings line 108 (self.symbol = base_symbol) and the
\* verification of the symbol after it
CfgMt5 ==
    /\ pc["request"] = "cfg_mt5"
    /\ mt5_symbol' = loc["request"].req.pair
    /\ pc' = [pc EXCEPT !["request"] = "cfg_symbol"]
    /\ UNCHANGED <<engine_vars, cache_vars, launcher_symbol, stop_event, requests, now,
                   loc, build_vars>>

\* configure_from_settings lines 108-116: the symbol is stored, then
\* verify_symbol fails and the handler answers 500 (245-246)
CfgMt5Raises ==
    /\ pc["request"] = "cfg_mt5"
    /\ mt5_symbol' = loc["request"].req.pair
    /\ pc' = [pc EXCEPT !["request"] = "respond"]
    /\ loc' = [loc EXCEPT !["request"].resp = <<[error |-> "Settings update failed"]>>]
    /\ UNCHANGED <<engine_vars, cache_vars, launcher_symbol, stop_event, requests, now,
                   build_vars>>

\* configure_pyramid line 39
CfgSymbol ==
    /\ pc["request"] = "cfg_symbol"
    /\ symbol' = loc["request"].req.pair
    /\ pc' = [pc EXCEPT !["request"] = "cfg_structure"]
    /\ UNCHANGED <<pyramid_style, pyramid_structure, base_tf, current_symbol,
                   cache_vars, mt5_symbol, launcher_symbol, stop_event, requests, now,
                   loc, build_vars>>

\* configure_pyramid line 40
CfgStructure ==
    /\ pc["request"] = "cfg_structure"
    /\ pyramid_structure' = PYRAMID_STYLES[StyleKey(loc["request"].req.style)][2]
    /\ pc' = [pc EXCEPT !["request"] = "cfg_style"]
    /\ UNCHANGED <<symbol, pyramid_style, base_tf, current_symbol,
                   cache_vars, mt5_symbol, launcher_symbol, stop_event, requests, now,
                   loc, build_vars>>

\* configure_pyramid line 41: the style as the request spelt it
CfgStyle ==
    /\ pc["request"] = "cfg_style"
    /\ pyramid_style' = loc["request"].req.style
    /\ pc' = [pc EXCEPT !["request"] = "cfg_base_tf"]
    /\ UNCHANGED <<symbol, pyramid_structure, base_tf, current_symbol,
                   cache_vars, mt5_symbol, launcher_symbol, stop_event, requests, now,
                   loc, build_vars>>

\* configure_pyramid line 42
CfgBaseTf ==
    /\ pc["request"] = "cfg_base_tf"
    /\ base_tf' = PYRAMID_STYLES[StyleKey(loc["request"].req.style)][2][1]
    /\ pc' = [pc EXCEPT !["request"] = "cfg_current"]
    /\ UNCHANGED <<symbol, pyramid_style, pyramid_structure, current_symbol,
                   cache_vars, mt5_symbol, launcher_symbol, stop_event, requests, now,
                   loc, build_vars>>

\* configure_pyramid line 44
CfgCurrent ==
    /\ pc["request"] = "cfg_current"
    /\ current_symbol' = loc["request"].req.pair
    /\ pc' = [pc EXCEPT !["request"] = "set_launcher"]
    /\ UNCHANGED <<symbol, pyramid_style, pyramid_structure, base_tf,
                   cache_vars, mt5_symbol, launcher_symbol, stop_event, requests, now,
                   loc, build_vars>>

\* api_update_settings lines 202-204
SetLauncher ==
    /\ pc["request"] = "set_launcher"
    /\ launcher_symbol' = mt5_symbol
    /\ pc' = [pc EXCEPT !["request"] = "fetch"]
    /\ UNCHANGED <<engine_vars, cache_vars, mt5_symbol, stop_event, requests, now,
                   loc, build_vars>>

Next ==
    \/ \E t \in Threads : Fetch(t)
    \/ \E t \in Threads : FetchRaises(t)
    \/ \E t \in Threads : BuildBase(t)
    \/ \E t \in Threads : BuildBlocks(t)
    \/ \E t \in Threads : BuildMeta(t)
    \/ SavePyramidData("collector")
    \/ \E t \in Threads : UsdPyr(t)
    \/ \E t \in Threads : UsdRaw(t)
    \/ \E t \in Threads : UsdLatest(t)
    \/ \E t \in Threads : StjCache(t)
    \/ \E t \in Threads : StjFiles(t)
    \/ \E t \in Threads : StjFilesRaises(t)
    \/ Sleep
    \/ Backoff
    \/ ApiPyramid
    \/ ApiChartData
    \/ ApiUpdateSettings
    \/ GpCheck
    \/ GpCreate
    \/ GrCheck
    \/ GrCreate
    \/ ReadEntry
    \/ Respond
    \/ CfgMt5
    \/ CfgMt5Raises
    \/ CfgSymbol
    \/ CfgStructure
    \/ CfgStyle
    \/ CfgBaseTf
    \/ CfgCurrent
    \/ SetLauncher

Spec == Init /\ [][Next]_vars

(***************************************************************************)
(* main_launcher.py: the producer thread alone, with the exceptions of a   *)
(* cycle recorded in calls and the shutdown signal.                        *)
(***************************************************************************)
\* MainLauncher.stop line 250: the shutdown signal
Stop ==
    /\ ~stop_event
    /\ stop_event' = TRUE
    /\ UNCHANGED <<engine_vars, cache_vars, mt5_symbol, launcher_symbol,
                   requests, now, pc, loc, build_vars>>

\* _load_initial_data 155-157: the initial load raises
LoadRaises ==
    /\ loc["collector"].initial
    /\ FetchRaises("collector")

\* collector_loop 208-209: fetch_all_timeframes, calculate_momentum_analysis
\* or build_pyramid_json raises and the handler of the loop catches it
CycleRaises ==
    /\ pc["collector"] \in {"fetch", "build_base", "build_blocks", "build_meta"}
    /\ ~loc["collector"].initial
    /\ Len(calls) < MaxCalls
    /\ calls' = Append(calls, [op |-> "except", at |-> pc["collector"]])
    /\ pc' = [pc EXCEPT !["collector"] = "backoff"]
    /\ UNCHANGED <<engine_vars, cache_vars, mt5_symbol, launcher_symbol,
                   stop_event, requests, now, loc, data, built>>

NextLoop ==
    \/ Fetch("collector")
    \/ LoadRaises
    \/ CycleRaises
    \/ BuildBase("collector")
    \/ BuildBlocks("collector")
    \/ BuildMeta("collector")
    \/ SavePyramidData("collector")
    \/ UsdPyr("collector")
    \/ UsdRaw("collector")
    \/ UsdLatest("collector")
    \/ StjCache("collector")
    \/ StjFiles("collector")
    \/ StjFilesRaises("collector")
    \/ Sleep
    \/ Backoff
    \/ Stop

\* the collector is a running daemon thread and time.sleep returns: a sleep
\* that has begun ends
SpecLoop == Init /\ [][NextLoop]_vars /\ WF_vars(Sleep) /\ WF_vars(Backoff)

(***************************************************************************)
(* Direct calls of the engine's cache methods, one after the other, no     *)
(* thread running: calls holds, for each call made, the method, its symbol *)
(* argument, the value returned and the two cache dicts before the call.   *)
(***************************************************************************)
\* the styles configure_pyramid is called with
CacheStyles == {"scalper", "daily"}

Call(op, sym, result) ==
    [op |-> op, symbol |-> sym, result |-> result,
     before |-> [pyramid_cache |-> pyramid_cache,
                 raw_data_cache |-> raw_data_cache]]

\* every direct call is made at a later time than the one before it
Called(op, sym, result) ==
    /\ Len(calls) < MaxCalls
    /\ calls' = Append(calls, Call(op, sym, result))
    /\ now' = now + ClockStep
    /\ UNCHANGED <<thread_vars, data, built>>

\* PyramidEngine.get_cached_symbols
get_cached_symbols == DOMAIN pyramid_cache

\* PyramidEngine.get_pyramid_for_symbol(pair)
GetPyramidForSymbol ==
    \E pair \in Symbols :
        /\ IF pair \in DOMAIN pyramid_cache
           THEN /\ Called("get_pyramid_for_symbol", pair, pyramid_cache[pair])
                /\ UNCHANGED pyramid_cache
           ELSE /\ Called("get_pyramid_for_symbol", pair, EmptyPyramidFor(pair))
                /\ pyramid_cache' = DictPut(pyramid_cache, pair, EmptyPyramidFor(pair))
        /\ UNCHANGED <<engine_vars, raw_data_cache, latest_pyramid, latest_raw_data>>

\* PyramidEngine.get_raw_data_for_symbol(pair)
GetRawDataForSymbol ==
    \E pair \in Symbols :
        /\ IF pair \in DOMAIN raw_data_cache
           THEN /\ Called("get_raw_data_for_symbol", pair, raw_data_cache[pair])
                /\ UNCHANGED raw_data_cache
           ELSE /\ Called("get_raw_data_for_symbol", pair, EmptyData)
                /\ raw_data_cache' = DictPut(raw_data_cache, pair, EmptyData)
        /\ UNCHANGED <<engine_vars, pyramid_cache, latest_pyramid, latest_raw_data>>

\* the series of a fetch for sym and the pyramid built from them, as a cycle
\* hands them to update_symbol_data and save_to_json
Fetched(sym, n) ==
    Annotated(fetch_all_timeframes(sym, now, [tf \in Range(ALL_TIMEFRAMES) |-> n]))

\* PyramidEngine.update_symbol_data(sym, raw_data, pyramid_data)
UpdateSymbolData ==
    \E sym \in Symbols, n \in {0, MaxCandles} :
        LET raw_data == Fetched(sym, n)
            pyramid_data == build_pyramid_json(EngineCfg, NonEmpty(raw_data), now)
        IN  /\ Called("update_symbol_data", sym, None)
            /\ pyramid_cache' = DictPut(pyramid_cache, sym, pyramid_data)
            /\ raw_data_cache' = DictPut(raw_data_cache, sym, raw_data)
            /\ IF sym = current_symbol
               THEN /\ latest_pyramid' = pyramid_data
                    /\ latest_raw_data' = raw_data
               ELSE UNCHANGED <<latest_pyramid, latest_raw_data>>
            /\ UNCHANGED engine_vars

\* PyramidEngine.save_to_json(pyramid_data), the files written; the call is
\* recorded under the symbol of the pyramid, the cache key it stores
SaveToJson ==
    \E n \in {0, MaxCandles} :
        LET pyramid_data ==
                build_pyramid_json(EngineCfg, NonEmpty(Fetched(symbol, n)), now)
        IN  /\ Called("save_to_json", pyramid_data.symbol, None)
            /\ pyramid_cache' =
                  IF Falsy(pyramid_data.symbol) THEN pyramid_cache
                  ELSE DictPut(pyramid_cache, pyramid_data.symbol, pyramid_data)
            /\ latest_pyramid' = pyramid_data
            /\ UNCHANGED <<engine_vars, raw_data_cache, latest_raw_data>>

\* PyramidEngine.configure_pyramid(sym, structure, style, utc_offset), called
\* as api_update_settings calls it
ConfigurePyramid ==
    \E sym \in Symbols, st \in CacheStyles :
        /\ Called("configure_pyramid", sym, None)
        /\ symbol' = sym
        /\ pyramid_structure' = PYRAMID_STYLES[st][2]
        /\ pyramid_style' = st
        /\ base_tf' = PYRAMID_STYLES[st][2][1]
        /\ current_symbol' = sym
        /\ UNCHANGED cache_vars

\* PyramidEngine.clear_symbol_cache(sym)
ClearSymbolCache ==
    \E sym \in Symbols :
        /\ Called("clear_symbol_cache", sym, None)
        /\ pyramid_cache' = IF sym \in DOMAIN pyramid_cache
                            THEN DictDel(pyramid_cache, sym) ELSE pyramid_cache
        /\ raw_data_cache' = IF sym \in DOMAIN raw_data_cache
                             THEN DictDel(raw_data_cache, sym) ELSE raw_data_cache
        /\ UNCHANGED <<engine_vars, latest_pyramid, latest_raw_data>>

NextCache ==
    \/ GetPyramidForSymbol
    \/ GetRawDataForSymbol
    \/ UpdateSymbolData
    \/ SaveToJson
    \/ ConfigurePyramid
    \/ ClearSymbolCache

SpecCache == Init /\ [][NextCache]_vars


(***************************************************************************)
(* pyramid_engine.py: chart data.  Direct calls of get_chart_data: the     *)
(* call is given a map with one series, stored newest-first or             *)
(* oldest-first, or an empty map.                                          *)
(***************************************************************************)
MillisPerMinute == 60000

Reverse(s) == [i \in 1..Len(s) |-> s[Len(s) + 1 - i]]

\* PyramidEngine.get_chart_data(data, timeframe)
get_chart_data(d, timeframe) ==
    IF timeframe \notin DOMAIN d \/ d[timeframe] = EmptyFrame THEN <<>>
    ELSE LET df == d[timeframe]
         IN  Reverse([i \in 1..Len(df) |->
                         [x |-> df[i].time * MillisPerMinute,
                          y |-> df[i].close,
                          o |-> df[i].open, h |-> df[i].high,
                          l |-> df[i].low, c |-> df[i].close,
                          volume |-> df[i].tick_volume]])

\* the timeframes of the series given to get_chart_data
ChartSeriesTimeframes == {"H1", "M15"}

\* the n most recent bars of tf before Epoch0, newest first
NewestFirst(sym, tf, n) == fetch_timeframe_data(sym, tf, Epoch0, n)

\* the series of tf given to get_chart_data: the n most recent bars, stored
\* newest-first or oldest-first
ChartSeries(tf) ==
    UNION {{NewestFirst(sym, tf, n), Reverse(NewestFirst(sym, tf, n))} :
              sym \in Symbols, n \in 0..MaxChartCandles}

ChartInputs ==
    {EmptyDict}
    \cup UNION {{DictPut(EmptyDict, tf, series) : series \in ChartSeries(tf)} :
                   tf \in ChartSeriesTimeframes}

InitChart ==
    /\ symbol = DefaultSymbol
    /\ pyramid_structure = PYRAMID_STYLES[DefaultStyle][2]
    /\ pyramid_style = PYRAMID_STYLES[DefaultStyle][1]
    /\ base_tf = PYRAMID_STYLES[DefaultStyle][2][1]
    /\ current_symbol = DefaultSymbol
    /\ mt5_symbol = DefaultSymbol
    /\ launcher_symbol = DefaultSymbol
    /\ data \in ChartInputs
    /\ built = <<>>
    /\ calls = <<>>
    /\ now = Epoch0
    /\ QuietThreads

\* pyramid_engine.get_chart_data(data, timeframe)
GetChartData ==
    /\ calls = <<>>
    /\ \E timeframe \in Range(ALL_TIMEFRAMES) :
          calls' = <<[op |-> "get_chart_data", timeframe |-> timeframe,
                      result |-> get_chart_data(data, timeframe)]>>
    /\ UNCHANGED <<engine_vars, cache_vars, thread_vars, now, data, built>>

NextChart == GetChartData

SpecChart == InitChart /\ [][NextChart]_vars

\* C13: get_chart_data returns one point per candle of the timeframe's
\* series, by strictly increasing time, and nothing when the timeframe is
\* absent or its series is empty.
C13_ChartAscending ==
    \A k \in DOMAIN calls :
        LET timeframe == calls[k].timeframe
            points == calls[k].result
        IN  IF timeframe \notin DOMAIN data \/ data[timeframe] = EmptyFrame
            THEN points = <<>>
            ELSE /\ Len(points) = Len(data[timeframe])
                 /\ \A i, j \in DOMAIN points : i < j => points[i].x < points[j].x


(***************************************************************************)
(* Indicator periods: web_dashboard._extract_custom_periods and            *)
(* pyramid_engine._get_periods.  A parameter name is the sequence of the   *)
(* words that its underscores separate (rsi_period is <<"rsi", "period">>);*)
(* a parameter value is <<n>> for the numeral of the integer n and <<>>    *)
(* for a text int() rejects.                                               *)
(***************************************************************************)
\* key.endswith('_period')
EndsWithPeriod(key) == Len(key) >= 2 /\ key[Len(key)] = "period"

\* '_period_' in key
ContainsPeriod(key) == \E i \in 2..(Len(key) - 1) : key[i] = "period"

\* key.startswith(prefix), prefix being whole words
StartsWith(key, prefix) ==
    Len(key) >= Len(prefix) /\ SubSeq(key, 1, Len(prefix)) = prefix

\* WebDashboard._extract_custom_periods(request)
extract_custom_periods(args) ==
    LET kept == {key \in DOMAIN args :
                    /\ EndsWithPeriod(key) \/ ContainsPeriod(key)
                    /\ args[key] # <<>>}
    IN  [key \in kept |-> args[key][1]]

\* dict.get(key, default)
Get(d, key, default) == IF key \in DOMAIN d THEN d[key] ELSE default

\* the defaults of _get_periods, lines 325-335
DefaultPeriods ==
    [sma_periods |-> {20, 50}, ema_periods |-> {12, 26},
     macd_fast |-> 12, macd_slow |-> 26, macd_signal |-> 9,
     rsi_period |-> 14, bb_period |-> 20, stoch_k |-> 14, stoch_d |-> 3]

\* the values of the keys that start with prefix (the list of lines 351-352,
\* as a set)
PeriodsWith(custom_periods, prefix) ==
    {custom_periods[key] : key \in {k \in DOMAIN custom_periods : StartsWith(k, prefix)}}

\* PyramidEngine._get_periods(custom_periods)
get_periods(custom_periods) ==
    IF custom_periods = EmptyDict THEN DefaultPeriods
    ELSE LET sma_periods == PeriodsWith(custom_periods, <<"sma", "period">>)
             ema_periods == PeriodsWith(custom_periods, <<"ema", "period">>)
         IN  [sma_periods |-> IF sma_periods # {} THEN sma_periods
                              ELSE DefaultPeriods.sma_periods,
              ema_periods |-> IF ema_periods # {} THEN ema_periods
                              ELSE DefaultPeriods.ema_periods,
              macd_fast |-> Get(custom_periods, <<"macd", "fast">>, 12),
              macd_slow |-> Get(custom_periods, <<"macd", "slow">>, 26),
              macd_signal |-> Get(custom_periods, <<"macd", "signal">>, 9),
              rsi_period |-> Get(custom_periods, <<"rsi", "period">>, 14),
              bb_period |-> Get(custom_periods, <<"bb", "period">>, 20),
              stoch_k |-> Get(custom_periods, <<"stoch", "k">>, 14),
              stoch_d |-> Get(custom_periods, <<"stoch", "d">>, 3)]

\* the single-period indicators and the names a request can give their
\* period: the name _get_periods reads and the name with _period added
SingleIndicators ==
    {"macd_fast", "macd_slow", "macd_signal", "rsi_period", "bb_period",
     "stoch_k", "stoch_d"}

OverrideKeys(indicator) ==
    CASE indicator = "macd_fast"   -> {<<"macd", "fast">>, <<"macd", "fast", "period">>}
      [] indicator = "macd_slow"   -> {<<"macd", "slow">>, <<"macd", "slow", "period">>}
      [] indicator = "macd_signal" -> {<<"macd", "signal">>, <<"macd", "signal", "period">>}
      [] indicator = "rsi_period"  -> {<<"rsi", "period">>}
      [] indicator = "bb_period"   -> {<<"bb", "period">>}
      [] indicator = "stoch_k"     -> {<<"stoch", "k">>, <<"stoch", "k", "period">>}
      [] indicator = "stoch_d"     -> {<<"stoch", "d">>, <<"stoch", "d", "period">>}
      [] indicator = "sma_periods" -> {<<"sma", "period">>, <<"sma", "period", "1">>}
      [] indicator = "ema_periods" -> {<<"ema", "period">>, <<"ema", "period", "1">>}

PeriodKeys ==
    UNION {OverrideKeys(indicator) :
              indicator \in SingleIndicators \cup {"sma_periods", "ema_periods"}}

\* the values of the parameters: the numeral 7 and a text that is no numeral
ArgValues == {<<7>>, <<>>}

\* the period parameters of a request
RequestArgs ==
    UNION {[keys -> ArgValues] :
              keys \in {K \in SUBSET PeriodKeys : Cardinality(K) <= MaxArgs}}

InitPeriods ==
    /\ symbol = DefaultSymbol
    /\ pyramid_structure = PYRAMID_STYLES[DefaultStyle][2]
    /\ pyramid_style = PYRAMID_STYLES[DefaultStyle][1]
    /\ base_tf = PYRAMID_STYLES[DefaultStyle][2][1]
    /\ current_symbol = DefaultSymbol
    /\ mt5_symbol = DefaultSymbol
    /\ launcher_symbol = DefaultSymbol
    /\ data \in RequestArgs
    /\ built = <<>>
    /\ calls = <<>>
    /\ now = Epoch0
    /\ QuietThreads

\* api_chart_data line 98 and calculate_technical_indicators line 257
GetPeriods ==
    /\ calls = <<>>
    /\ calls' = <<[op |-> "_get_periods",
                   custom_periods |-> extract_custom_periods(data),
                   result |-> get_periods(extract_custom_periods(data))]>>
    /\ UNCHANGED <<engine_vars, cache_vars, thread_vars, now, data, built>>

NextPeriods == GetPeriods

SpecPeriods == InitPeriods /\ [][NextPeriods]_vars

\* the request gives the integer v as the period of the indicator, under
\* each of its names
Supplied(indicator, v) ==
    \A key \in OverrideKeys(indicator) : key \in DOMAIN data /\ data[key] = <<v>>

\* the request gives no period for the indicator
NotSupplied(indicator) ==
    \A key \in OverrideKeys(indicator) : key \notin DOMAIN data

\* C14: the periods the computation uses are, for every indicator, the
\* integer the request supplied for it and the default when the request
\* supplied none.
C14_PeriodOverrides ==
    \A k \in DOMAIN calls :
        LET periods == calls[k].result
        IN  /\ \A indicator \in SingleIndicators :
                  /\ \A v \in {7} : Supplied(indicator, v) => periods[indicator] = v
                  /\ NotSupplied(indicator)
                        => periods[indicator] = DefaultPeriods[indicator]
            /\ \A indicator \in {"sma_periods", "ema_periods"} :
                  /\ \A v \in {7} : Supplied(indicator, v) => periods[indicator] = {v}
                  /\ NotSupplied(indicator)
                        => periods[indicator] = DefaultPeriods[indicator]


(***************************************************************************)
(* Direct calls of calculate_momentum_analysis: the call is given a series *)
(* of candles whose prices lie on three levels, low <= open, close <= high *)
(* in each.                                                                *)
(***************************************************************************)
PriceLevels == {BasePrice(DefaultSymbol) + 10 * k : k \in 0..2}

Candles ==
    {[open |-> o, high |-> h, low |-> l, close |-> c] :
        o \in PriceLevels, h \in PriceLevels, l \in PriceLevels, c \in PriceLevels}

ValidCandles ==
    {k \in Candles : k.low <= k.open /\ k.low <= k.close
                     /\ k.open <= k.high /\ k.close <= k.high}

\* the series of the candles ks, the first the newest, one M15 bar apart
CandleSeries(ks) ==
    [i \in 1..Len(ks) |->
        [time |-> Epoch0 - i * TIMEFRAME_DURATIONS["M15"],
         open |-> ks[i].open, high |-> ks[i].high, low |-> ks[i].low,
         close |-> ks[i].close, tick_volume |-> 100]]

MomentumInputs ==
    UNION {{CandleSeries(ks) : ks \in [1..n -> ValidCandles]} :
              n \in 1..MaxMomentumCandles}

InitMomentum ==
    /\ symbol = DefaultSymbol
    /\ pyramid_structure = PYRAMID_STYLES[DefaultStyle][2]
    /\ pyramid_style = PYRAMID_STYLES[DefaultStyle][1]
    /\ base_tf = PYRAMID_STYLES[DefaultStyle][2][1]
    /\ current_symbol = DefaultSymbol
    /\ mt5_symbol = DefaultSymbol
    /\ launcher_symbol = DefaultSymbol
    /\ data \in MomentumInputs
    /\ built = <<>>
    /\ calls = <<>>
    /\ now = Epoch0
    /\ QuietThreads

\* pyramid_engine.calculate_momentum_analysis(df)
CalculateMomentumAnalysis ==
    /\ calls = <<>>
    /\ calls' = <<[op |-> "calculate_momentum_analysis",
                   result |-> calculate_momentum_analysis(data)]>>
    /\ UNCHANGED <<engine_vars, cache_vars, thread_vars, now, data, built>>

NextMomentum == CalculateMomentumAnalysis

SpecMomentum == InitMomentum /\ [][NextMomentum]_vars

\* the quotient is a finite number
Finite(q) == q[2] # 0

\* C17: in every row calculate_momentum_analysis returns, the wick ratio and
\* the body strength were divided by a number that is not zero: both are
\* finite.
C17_EpsilonGuard ==
    \A k \in DOMAIN calls : \A i \in DOMAIN calls[k].result :
        /\ Finite(calls[k].result[i].Wick_Ratio)
        /\ Finite(calls[k].result[i].Body_Strength)

\* an annotated series with a candle whose high, low and close are equal
C17_Witness ==
    \E k \in DOMAIN calls : \E i \in DOMAIN calls[k].result :
        LET row == calls[k].result[i]
        IN  /\ row.high = row.low
            /\ row.close = row.low
            /\ row.Wick_Ratio = <<0, Epsilon>>
            /\ row.Body_Strength = <<0, Epsilon>>


(***************************************************************************)
(* pyramid_engine.py: calculate_technical_indicators, the RSI column.      *)
(* A float that is a quotient of sums of prices is the pair <<a, b>> of    *)
(* its numerator and its denominator.                                      *)
(***************************************************************************)
\* the series length below which no indicator is computed
MinIndicatorCandles == 20

Max(a, b) == IF a >= b THEN a ELSE b

\* df['close'].diff() at row i
Diff(df, i) == IF i = 1 THEN NaN ELSE <<df[i].close - df[i - 1].close>>

\* a gain that keeps the sign of the price difference
Gain_signed(delta) == IF delta = NaN THEN 0 ELSE delta[1]

\* delta.where(delta > 0, 0), per element: NaN > 0 is false
Gain(delta) == IF delta # NaN /\ delta[1] > 0 THEN delta[1] ELSE 0

\* -delta.where(delta < 0, 0), per element
Loss(delta) == IF delta # NaN /\ delta[1] < 0 THEN -delta[1] ELSE 0

\* the sum of col[lo..hi]
RECURSIVE SumOf(_, _, _)
SumOf(col, lo, hi) == IF lo > hi THEN 0 ELSE col[lo] + SumOf(col, lo + 1, hi)

\* col.rolling(window, min_periods=1).mean() at row i, window >= 1
RollingMean(col, window, i) ==
    LET lo == Max(1, i - window + 1)
    IN  <<SumOf(col, lo, i), i - lo + 1>>

\* Series.replace(0, 0.00001) on a quotient
ReplaceZeroQ(q) == IF q[1] = 0 THEN <<Epsilon, 1>> ELSE q

\* a / b of two quotients
QDiv(a, b) == <<a[1] * b[2], a[2] * b[1]>>

\* 100 - (100 / (1 + rs))
RsiOf(rs) ==
    LET one_plus_rs == <<rs[2] + rs[1], rs[2]>>
        part == QDiv(<<100, 1>>, one_plus_rs)
    IN  <<100 * part[2] - part[1], part[2]>>

\* lines 281-288: the RSI column, from the closes in row order
RSI(df, rsi_period) ==
    LET window == Min(rsi_period, Len(df))
        gain_col == [i \in 1..Len(df) |-> Gain(Diff(df, i))]
        loss_col == [i \in 1..Len(df) |-> Loss(Diff(df, i))]
    IN  [i \in 1..Len(df) |->
            RsiOf(QDiv(RollingMean(gain_col, window, i),
                       ReplaceZeroQ(RollingMean(loss_col, window, i))))]

\* PyramidEngine.calculate_technical_indicators(df, custom_periods): whether
\* the RSI column was computed, and the column.  A series under 20 candles
\* is returned as it is (253-254); rolling() raises for a window under 1 and
\* the handler of line 317 returns what was computed before it.
calculate_technical_indicators(df, custom_periods) ==
    LET periods == get_periods(custom_periods)
    IN  IF Len(df) < MinIndicatorCandles \/ Min(periods.rsi_period, Len(df)) < 1
        THEN [computed |-> FALSE, RSI |-> <<>>]
        ELSE [computed |-> TRUE, RSI |-> RSI(df, periods.rsi_period)]

\* closes that never move, only rise or only fall
Trends == {0, 10, -10}

\* a series of n candles, newest first, whose close changes by step from one
\* candle to the next in time
TrendSeries(n, step) ==
    [i \in 1..n |->
        LET c == BasePrice(DefaultSymbol) + (n - i) * step
        IN  [time |-> Epoch0 - i * TIMEFRAME_DURATIONS["M15"],
             open |-> c, high |-> c, low |-> c, close |-> c,
             tick_volume |-> 100]]

IndicatorLengths == (MinIndicatorCandles - 1)..MaxIndicatorCandles

IndicatorInputs ==
    {NewestFirst(sym, tf, n) :
        sym \in Symbols, tf \in ChartSeriesTimeframes, n \in IndicatorLengths}
    \cup {TrendSeries(n, step) : n \in IndicatorLengths, step \in Trends}

\* the period parameters tried: none, an RSI period, another indicator's
RsiPeriods == {-1, 0, 1, 2, 14, 30}

IndicatorArgs ==
    {EmptyDict, DictPut(EmptyDict, <<"bb", "period">>, <<5>>)}
    \cup {DictPut(EmptyDict, <<"rsi", "period">>, <<p>>) : p \in RsiPeriods}

InitIndicators ==
    /\ symbol = DefaultSymbol
    /\ pyramid_structure = PYRAMID_STYLES[DefaultStyle][2]
    /\ pyramid_style = PYRAMID_STYLES[DefaultStyle][1]
    /\ base_tf = PYRAMID_STYLES[DefaultStyle][2][1]
    /\ current_symbol = DefaultSymbol
    /\ mt5_symbol = DefaultSymbol
    /\ launcher_symbol = DefaultSymbol
    /\ data \in [df : IndicatorInputs, args : IndicatorArgs]
    /\ built = <<>>
    /\ calls = <<>>
    /\ now = Epoch0
    /\ QuietThreads

\* PyramidEngine.get_current_indicator_values(df): the indicator columns of
\* df.iloc[-1], under their names in lower case
get_current_indicator_values(df_with_indicators) ==
    IF df_with_indicators.computed
    THEN [col \in {"rsi"} |->
             df_with_indicators.RSI[Len(df_with_indicators.RSI)]]
    ELSE EmptyDict

\* api_chart_data lines 98-112
CalculateTechnicalIndicators ==
    /\ calls = <<>>
    /\ LET df_with_indicators ==
               calculate_technical_indicators(
                   data.df, extract_custom_periods(data.args))
       IN  calls' = <<[op |-> "calculate_technical_indicators",
                       result |-> df_with_indicators,
                       indicators |->
                           get_current_indicator_values(df_with_indicators)]>>
    /\ UNCHANGED <<engine_vars, cache_vars, thread_vars, now, data, built>>

NextIndicators == CalculateTechnicalIndicators

SpecIndicators == InitIndicators /\ [][NextIndicators]_vars

\* the quotient lies in [0, 100]
InPercentRange(q) ==
    IF q[2] > 0 THEN 0 <= q[1] /\ q[1] <= 100 * q[2]
    ELSE IF q[2] < 0 THEN 0 >= q[1] /\ q[1] >= 100 * q[2]
    ELSE FALSE

\* C16: every RSI value calculate_technical_indicators computes lies in
\* [0, 100].
C16_RsiBound ==
    \A k \in DOMAIN calls : \A i \in DOMAIN calls[k].result.RSI :
        InPercentRange(calls[k].result.RSI[i])

\* an RSI column of a series that only rises, computed with a period the
\* request supplied: the average loss is zero in every row and the first
\* row has no price difference
C16_Witness ==
    \E k \in DOMAIN calls :
        /\ calls[k].result.computed
        /\ data.df = TrendSeries(MinIndicatorCandles, -10)
        /\ <<"rsi", "period">> \in DOMAIN data.args
        /\ calls[k].result.RSI[1] = <<0, Epsilon>>
        /\ \E i \in DOMAIN calls[k].result.RSI : calls[k].result.RSI[i][1] > 0


\* the position of the row of df with the greatest time
NewestRow(df) ==
    CHOOSE i \in DOMAIN df : \A j \in DOMAIN df : df[j].time <= df[i].time

\* two quotients with non-zero denominators are the same number
SameNumber(p, q) == p[1] * q[2] = q[1] * p[2]

\* C22: for a series stored newest first, the current RSI value returned by
\* get_current_indicator_values is the RSI of the row with the greatest
\* time.
C22_CurrentIsNewest ==
    \A k \in DOMAIN calls :
        calls[k].result.computed =>
            SameNumber(calls[k].indicators["rsi"],
                       calls[k].result.RSI[NewestRow(data.df)])


(***************************************************************************)
(* pyramid_engine.py: calculate_support_resistance, called directly.       *)
(***************************************************************************)
\* the number of levels kept on each side
LevelCap == 5

\* the inverse of the relative distance under which a level is a duplicate
DuplicateInverse == 1000

\* lines 487-488 and 495-496: row i is a swing high, a swing low
SwingHigh(df, i, lookback) ==
    \A j \in 1..lookback :
        df[i].high > df[i - j].high /\ df[i].high > df[i + j].high

SwingLow(df, i, lookback) ==
    \A j \in 1..lookback :
        df[i].low < df[i - j].low /\ df[i].low < df[i + j].low

\* a test that finds no level a duplicate
IsDuplicate_never(level, existing) == FALSE

\* lines 491 and 499: any(abs(level - existing) / existing < 0.001 ...)
IsDuplicate(level, existing) ==
    \E k \in DOMAIN existing :
        Abs(level - existing[k]) * DuplicateInverse < existing[k]

\* the loop of lines 485-500 from row i on, levels being the lists so far
RECURSIVE ScanLevels(_, _, _, _)
ScanLevels(df, lookback, i, levels) ==
    IF i > Len(df) - lookback THEN levels
    ELSE LET r == IF /\ SwingHigh(df, i, lookback)
                     /\ ~IsDuplicate(df[i].high, levels.resistance)
                  THEN Append(levels.resistance, df[i].high)
                  ELSE levels.resistance
             sp == IF /\ SwingLow(df, i, lookback)
                      /\ ~IsDuplicate(df[i].low, levels.support)
                   THEN Append(levels.support, df[i].low)
                   ELSE levels.support
         IN  ScanLevels(df, lookback, i + 1, [support |-> sp, resistance |-> r])

\* sorted(levels)
Sorted(levels) == SortSeq(levels, LAMBDA a, b : a < b)

\* levels[-n:] and levels[:n]
LastN(levels, n) == SubSeq(levels, Max(1, Len(levels) - n + 1), Len(levels))
FirstN(levels, n) == SubSeq(levels, 1, Min(n, Len(levels)))

\* the lists of the loop, before they are sorted and cut
DetectedLevels(df, lookback) ==
    IF Len(df) < lookback * 2 THEN [support |-> <<>>, resistance |-> <<>>]
    ELSE ScanLevels(df, lookback, lookback + 1,
                    [support |-> <<>>, resistance |-> <<>>])

\* PyramidEngine.calculate_support_resistance(df, lookback)
calculate_support_resistance(df, lookback) ==
    LET levels == DetectedLevels(df, lookback)
    IN  [support |-> LastN(Sorted(levels.support), LevelCap),
         resistance |-> FirstN(Sorted(levels.resistance), LevelCap)]

\* the price between the lows of the valleys and the highs of the peaks
MidPrice == 9500

\* the k-th distance of a swing from the lowest one: the first three are
\* 0.05% and 0.1% apart, the others further
SwingOffset(k) == IF k = 1 THEN 0 ELSE IF k = 2 THEN 5 ELSE IF k = 3 THEN 9
                  ELSE 20 * (k - 2)

ValleyLow(k) == 9000 + SwingOffset(k)
PeakHigh(k) == 10000 + SwingOffset(k)

\* the i-th smallest element of a set of numbers
Nth(S, i) == CHOOSE x \in S : Cardinality({y \in S : y < x}) = i - 1

\* a candle between two prices
Swing(t, lo, hi) ==
    [time |-> t, open |-> lo, high |-> hi, low |-> lo, close |-> hi,
     tick_volume |-> 100]

\* a series that starts and ends with a flat candle and has, in between, a
\* valley and then a peak for each member of picks, in the order given by
\* rising
ZigZag(picks, rising) ==
    LET m == Cardinality(picks)
        pick(k) == IF rising THEN Nth(picks, k) ELSE Nth(picks, m + 1 - k)
    IN  [i \in 1..(2 * m + 2) |->
            IF i = 1 \/ i = 2 * m + 2 THEN Swing(i, MidPrice, MidPrice)
            ELSE IF i % 2 = 0 THEN Swing(i, ValleyLow(pick(i \div 2)), MidPrice)
            ELSE Swing(i, MidPrice, PeakHigh(pick(i \div 2)))]

\* the lookbacks tried: the default needs 40 candles
Lookbacks == {1, 2, 20}

LevelInputs ==
    [df : {ZigZag(picks, rising) :
              picks \in SUBSET (1..MaxSwings), rising \in BOOLEAN},
     lookback : Lookbacks]

InitLevels ==
    /\ symbol = DefaultSymbol
    /\ pyramid_structure = PYRAMID_STYLES[DefaultStyle][2]
    /\ pyramid_style = PYRAMID_STYLES[DefaultStyle][1]
    /\ base_tf = PYRAMID_STYLES[DefaultStyle][2][1]
    /\ current_symbol = DefaultSymbol
    /\ mt5_symbol = DefaultSymbol
    /\ launcher_symbol = DefaultSymbol
    /\ data \in LevelInputs
    /\ built = <<>>
    /\ calls = <<>>
    /\ now = Epoch0
    /\ QuietThreads

CalculateSupportResistance ==
    /\ calls = <<>>
    /\ calls' = <<[op |-> "calculate_support_resistance",
                   result |-> calculate_support_resistance(
                                  data.df, data.lookback)]>>
    /\ UNCHANGED <<engine_vars, cache_vars, thread_vars, now, data, built>>

NextLevels == CalculateSupportResistance

SpecLevels == InitLevels /\ [][NextLevels]_vars

\* the list is in ascending order
AscendingLevels(levels) ==
    \A i, j \in DOMAIN levels : i < j => levels[i] <= levels[j]

\* no two levels of the list are closer than 0.1% of the lower of the two
Apart(levels) ==
    \A i, j \in DOMAIN levels :
        i # j => Abs(levels[i] - levels[j]) * DuplicateInverse
                     >= Min(levels[i], levels[j])

\* every level of the list that is not in kept is above, or below, all of kept
KeptLowest(kept, levels) ==
    \A x \in Range(levels) \ Range(kept) : \A y \in Range(kept) : y < x
KeptHighest(kept, levels) ==
    \A x \in Range(levels) \ Range(kept) : \A y \in Range(kept) : y > x

\* C23: calculate_support_resistance returns at most 5 supports and at most
\* 5 resistances, each list ascending and without two levels within 0.1% of
\* each other; of the levels detected, the resistances kept are the lowest
\* and the supports kept are the highest, and a level is left out only when
\* 5 are kept.
C23_Levels ==
    \A k \in DOMAIN calls :
        LET levels == calls[k].result
            found == DetectedLevels(data.df, data.lookback)
        IN  /\ Len(levels.support) <= LevelCap
            /\ Len(levels.resistance) <= LevelCap
            /\ AscendingLevels(levels.support) /\ AscendingLevels(levels.resistance)
            /\ Apart(levels.support) /\ Apart(levels.resistance)
            /\ Range(levels.support) \subseteq Range(found.support)
            /\ Range(levels.resistance) \subseteq Range(found.resistance)
            /\ KeptLowest(levels.resistance, found.resistance)
            /\ KeptHighest(levels.support, found.support)
            /\ Len(found.support) > LevelCap => Len(levels.support) = LevelCap
            /\ Len(found.resistance) > LevelCap
                   => Len(levels.resistance) = LevelCap
            /\ Len(found.support) <= LevelCap
                   => Range(levels.support) = Range(found.support)
            /\ Len(found.resistance) <= LevelCap
                   => Range(levels.resistance) = Range(found.resistance)

\* seven swing lows and seven swing highs, of which one on each side is a
\* duplicate and one more is cut by the cap
C23_Witness ==
    /\ calls # <<>>
    /\ data.lookback = 1
    /\ Len(data.df) = 2 * MaxSwings + 2
    /\ Len(DetectedLevels(data.df, 1).support) > LevelCap
    /\ Len(DetectedLevels(data.df, 1).support) < MaxSwings
    /\ Len(calls[1].result.support) = LevelCap
    /\ Len(calls[1].result.resistance) = LevelCap


(***************************************************************************)
(* web_dashboard.py: api_chart_data served alone on a cache that holds one *)
(* instrument.  A frame the handler works on is the object it is (the one  *)
(* in the cache or a copy) and its rows; calculate_technical_indicators    *)
(* assigns the indicator columns to the object it is given.                *)
(***************************************************************************)
\* the timeframes of the requests: two that are fetched and one that is not
RequestTimeframes == {"H1", "M15", "W1"}

\* a copy that is the object it was made from
DataFrameCopy_alias(frame) == frame

\* DataFrame.copy()
DataFrameCopy(frame) == [obj |-> "copy", rows |-> frame.rows]

\* df['RSI'] = ...: the rows with the column
WithColumn(rows, name, col) ==
    [i \in DOMAIN rows |->
        [c \in DOMAIN rows[i] \cup {name} |->
            IF c = name THEN col[i] ELSE rows[i][c]]]

\* the cache holds the pair of one producer cycle for sym, n candles a series
InitRequest ==
    /\ symbol = DefaultSymbol
    /\ pyramid_structure = PYRAMID_STYLES[DefaultStyle][2]
    /\ pyramid_style = PYRAMID_STYLES[DefaultStyle][1]
    /\ base_tf = PYRAMID_STYLES[DefaultStyle][2][1]
    /\ current_symbol = DefaultSymbol
    /\ mt5_symbol = DefaultSymbol
    /\ launcher_symbol = DefaultSymbol
    /\ now = Epoch0
    /\ \E n \in IndicatorLengths :
          LET raw_data == Fetched(DefaultSymbol, n)
              pyramid_json == build_pyramid_json(EngineCfg, NonEmpty(raw_data), now)
          IN  /\ pyramid_cache = DictPut(EmptyDict, DefaultSymbol, pyramid_json)
              /\ raw_data_cache = DictPut(EmptyDict, DefaultSymbol, raw_data)
              /\ latest_pyramid = pyramid_json
              /\ latest_raw_data = raw_data
    /\ stop_event = FALSE
    /\ requests = 0
    /\ pc = [t \in Threads |-> "idle"]
    /\ loc = [t \in Threads |-> NoLocals]
    /\ data \in [pair : Symbols, timeframe : RequestTimeframes,
                 args : IndicatorArgs]
    /\ built = <<>>
    /\ calls = <<>>

\* api_chart_data, lines 86-127, for the request in data
ChartDataRequest ==
    /\ calls = <<>>
    /\ LET pair == data.pair
           timeframe == data.timeframe
           cached_raw_data == IF pair \in DOMAIN raw_data_cache
                              THEN raw_data_cache[pair] ELSE EmptyData
           found == timeframe \in DOMAIN cached_raw_data
           frame == IF found
                    THEN DataFrameCopy([obj |-> "cached",
                                        rows |-> cached_raw_data[timeframe]])
                    ELSE [obj |-> "copy", rows |-> <<>>]
           df_with_indicators ==
               calculate_technical_indicators(
                   frame.rows, extract_custom_periods(data.args))
       IN  /\ calls' = <<[op |-> "api_chart_data",
                          before |-> [pyramid_cache |-> pyramid_cache,
                                      raw_data_cache |-> raw_data_cache],
                          status |-> IF found THEN 200 ELSE 404,
                          result |-> df_with_indicators]>>
           /\ raw_data_cache' =
                 IF pair \notin DOMAIN raw_data_cache
                 THEN DictPut(raw_data_cache, pair, EmptyData)
                 ELSE IF found /\ frame.obj = "cached" /\ df_with_indicators.computed
                 THEN DictPut(raw_data_cache, pair,
                          DictPut(cached_raw_data, timeframe,
                              WithColumn(frame.rows, "RSI", df_with_indicators.RSI)))
                 ELSE raw_data_cache
    /\ UNCHANGED <<engine_vars, pyramid_cache, latest_pyramid, latest_raw_data,
                   thread_vars, now, data, built>>

NextRequest == ChartDataRequest

SpecRequest == InitRequest /\ [][NextRequest]_vars

\* C24: a chart-data request for an instrument that has a cache entry leaves
\* the pyramid and the series of every instrument as they were, whatever
\* periods the request supplies.
C24_ChartReadOnly ==
    \A k \in DOMAIN calls :
        data.pair \in DOMAIN calls[k].before.raw_data_cache =>
            /\ raw_data_cache = calls[k].before.raw_data_cache
            /\ pyramid_cache = calls[k].before.pyramid_cache

\* a request answered from a cached series for which the indicators were
\* computed with a period the request supplied
C24_Witness ==
    /\ calls # <<>>
    /\ calls[1].status = 200
    /\ calls[1].result.computed
    /\ <<"rsi", "period">> \in DOMAIN data.args
    /\ data.pair \in DOMAIN calls[1].before.raw_data_cache


(***************************************************************************)
(* web_dashboard.py: api_chart_data step by step, next to the producer     *)
(* thread.  The handler may be preempted between its calls of the engine.  *)
(***************************************************************************)
\* a frame for the indicators that is looked up in the cache again
IndicatorFrame_reread(cached_raw_data, pair, timeframe) ==
    raw_data_cache[pair][timeframe]

\* line 107: cached_raw_data[timeframe].copy()
IndicatorFrame(cached_raw_data, pair, timeframe) == cached_raw_data[timeframe]

\* GET /api/chart-data/<timeframe>?pair=...
ChartDataStart ==
    \E pair \in Symbols, tf \in ChartTimeframes :
        Serve("chart", pair, None, tf, "cd_lookup")

\* line 89: get_raw_data_for_symbol(pair), which returns the dict the cache
\* holds or stores and returns the dict of empty series
CdLookup ==
    /\ pc["request"] = "cd_lookup"
    /\ LET pair == loc["request"].req.pair
       IN  IF pair \in DOMAIN raw_data_cache
           THEN /\ loc' = [loc EXCEPT !["request"].cached = raw_data_cache[pair]]
                /\ UNCHANGED raw_data_cache
           ELSE /\ loc' = [loc EXCEPT !["request"].cached = EmptyData]
                /\ raw_data_cache' = DictPut(raw_data_cache, pair, EmptyData)
    /\ pc' = [pc EXCEPT !["request"] = "cd_points"]
    /\ UNCHANGED <<engine_vars, pyramid_cache, latest_pyramid, latest_raw_data,
                   mt5_symbol, launcher_symbol, stop_event, requests, now, build_vars>>

\* lines 91-103: the two tests, the periods and get_chart_data
CdPoints ==
    /\ pc["request"] = "cd_points"
    /\ loc' = [loc EXCEPT !["request"].resp =
                  <<[data |-> get_chart_data(loc["request"].cached,
                                             loc["request"].req.tf)]>>]
    /\ pc' = [pc EXCEPT !["request"] = "cd_indicators"]
    /\ UNCHANGED <<engine_vars, cache_vars, mt5_symbol, launcher_symbol,
                   stop_event, requests, now, build_vars>>

\* lines 106-124: the indicators of the copy and the response
CdIndicators ==
    /\ pc["request"] = "cd_indicators"
    /\ LET pair == loc["request"].req.pair
           timeframe == loc["request"].req.tf
           frame == IndicatorFrame(loc["request"].cached, pair, timeframe)
           df_with_indicators ==
               calculate_technical_indicators(frame, extract_custom_periods(EmptyDict))
       IN  loc' = [loc EXCEPT !["request"].resp =
                      <<[symbol |-> pair,
                         timeframe |-> timeframe,
                         data |-> loc["request"].resp[1].data,
                         total_candles |-> Len(loc["request"].resp[1].data),
                         frame |-> frame,
                         indicators |->
                             get_current_indicator_values(df_with_indicators)]>>]
    /\ pc' = [pc EXCEPT !["request"] = "respond"]
    /\ UNCHANGED <<engine_vars, cache_vars, mt5_symbol, launcher_symbol,
                   stop_event, requests, now, build_vars>>

NextRace ==
    \/ Fetch("collector")
    \/ FetchRaises("collector")
    \/ BuildBase("collector")
    \/ BuildBlocks("collector")
    \/ BuildMeta("collector")
    \/ SavePyramidData("collector")
    \/ UsdPyr("collector")
    \/ UsdRaw("collector")
    \/ UsdLatest("collector")
    \/ StjCache("collector")
    \/ StjFiles("collector")
    \/ StjFilesRaises("collector")
    \/ Sleep
    \/ Backoff
    \/ ChartDataStart
    \/ CdLookup
    \/ CdPoints
    \/ CdIndicators
    \/ Respond

SpecRace == Init /\ [][NextRace]_vars

\* the chart response is complete
ChartAnswered ==
    /\ pc["request"] = "respond"
    /\ loc["request"].req.kind = "chart"
    /\ loc["request"].resp # <<>>
    /\ "frame" \in DOMAIN loc["request"].resp[1]

\* C30: the plot points of a chart-data response are the points of the
\* series its indicators were computed from, and that series is the one the
\* handler obtained from the cache when it began, also when the entry is
\* replaced while the request is served.
C30_OneSeries ==
    ChartAnswered =>
        LET r == loc["request"].resp[1]
        IN  /\ r.data = get_chart_data(DictPut(EmptyDict, r.timeframe, r.frame),
                                       r.timeframe)
            /\ r.frame = loc["request"].cached[r.timeframe]
            /\ r.indicators =
                   get_current_indicator_values(
                       calculate_technical_indicators(
                           loc["request"].cached[r.timeframe],
                           extract_custom_periods(EmptyDict)))

\* a response made from a series with candles that the producer has replaced
\* in the cache since the handler looked it up
C30_Witness ==
    /\ ChartAnswered
    /\ loc["request"].resp[1].frame # EmptyFrame
    /\ raw_data_cache[loc["request"].req.pair][loc["request"].req.tf]
           # loc["request"].resp[1].frame
    /\ raw_data_cache[loc["request"].req.pair][loc["request"].req.tf] # EmptyFrame


(***************************************************************************)
(* Properties of the cache methods called directly                         *)
(***************************************************************************)
\* call c stores a pyramid under the key X: a replace of X or the
\* persistence step of one
ReplaceOf(c, X) ==
    /\ c.op \in {"update_symbol_data", "save_to_json"}
    /\ c.symbol = X

EvictionOf(c, X) ==
    /\ c.op = "clear_symbol_cache"
    /\ c.symbol = X

\* calls i and j are get_pyramid_for_symbol(X), no replace of X was made
\* before call j and X was not evicted between the two
TwoReads(i, j, X) ==
    /\ i < j
    /\ calls[i].op = "get_pyramid_for_symbol" /\ calls[i].symbol = X
    /\ calls[j].op = "get_pyramid_for_symbol" /\ calls[j].symbol = X
    /\ \A k \in 1..(j - 1) : ~ReplaceOf(calls[k], X)
    /\ \A k \in (i + 1)..(j - 1) : ~EvictionOf(calls[k], X)

\* C12: two calls of get_pyramid_for_symbol(X) with no replace of X before
\* the second, whatever else was called in between (reads, replaces and
\* evictions of other instruments, configure_pyramid), return equal
\* pyramids, with symbol X and no blocks.
C12_LazyInitIdempotent ==
    \A i, j \in DOMAIN calls : \A X \in Symbols :
        TwoReads(i, j, X) =>
            /\ calls[i].result = calls[j].result
            /\ calls[j].result.symbol = X
            /\ calls[j].result.blocks = <<>>

\* two reads of an instrument the engine is not configured for, with a
\* configure_pyramid between them
C12_Witness ==
    \E i, j \in DOMAIN calls : \E X \in Symbols :
        /\ TwoReads(i, j, X)
        /\ j = i + 2
        /\ calls[i + 1].op = "configure_pyramid"
        /\ calls[i + 1].symbol # X
        /\ calls[i].before.pyramid_cache = EmptyDict


\* the two cache dicts as call k left them
AfterCall(k) ==
    IF k = Len(calls)
    THEN [pyramid_cache |-> pyramid_cache, raw_data_cache |-> raw_data_cache]
    ELSE calls[k + 1].before

\* instrument Y has the same entries, or the same lack of them, in a and b
SameEntries(a, b, Y) ==
    /\ (Y \in DOMAIN a.pyramid_cache) = (Y \in DOMAIN b.pyramid_cache)
    /\ (Y \in DOMAIN a.raw_data_cache) = (Y \in DOMAIN b.raw_data_cache)
    /\ Y \in DOMAIN a.pyramid_cache => a.pyramid_cache[Y] = b.pyramid_cache[Y]
    /\ Y \in DOMAIN a.raw_data_cache => a.raw_data_cache[Y] = b.raw_data_cache[Y]

\* C18: after clear_symbol_cache(X) the cache holds neither a pyramid nor a
\* series for X and get_cached_symbols does not list X; the entries of every
\* other instrument are as before; when X was not cached nothing changed.
C18_EvictionFrame ==
    \A k \in DOMAIN calls : \A X \in Symbols :
        EvictionOf(calls[k], X) =>
            /\ X \notin DOMAIN AfterCall(k).pyramid_cache
            /\ X \notin DOMAIN AfterCall(k).raw_data_cache
            /\ k = Len(calls) => X \notin get_cached_symbols
            /\ \A Y \in Symbols \ {X} :
                   SameEntries(calls[k].before, AfterCall(k), Y)
            /\ (/\ X \notin DOMAIN calls[k].before.pyramid_cache
                /\ X \notin DOMAIN calls[k].before.raw_data_cache)
               => AfterCall(k) = calls[k].before

\* the last call evicted an instrument that had a pyramid and a series while
\* another instrument had them too
C18_Witness ==
    /\ calls # <<>>
    /\ \E X \in Symbols, Y \in Symbols :
        /\ X # Y
        /\ EvictionOf(calls[Len(calls)], X)
        /\ X \in DOMAIN calls[Len(calls)].before.pyramid_cache
        /\ X \in DOMAIN calls[Len(calls)].before.raw_data_cache
        /\ Y \in DOMAIN pyramid_cache
        /\ Y \in DOMAIN raw_data_cache

\* C19: after any sequence of cache operations get_cached_symbols is the set
\* of the instruments the cache holds a pyramid or a series for.
C19_ListsCached ==
    get_cached_symbols = DOMAIN pyramid_cache \cup DOMAIN raw_data_cache


\* C20: a cycle of collector_loop that raised is followed by the sleep of
\* the handler and then by the sleep of the normal interval before the try
\* block is entered again; the loop ends only when stop is signalled; and
\* after a failed cycle the try block is entered again unless stop is
\* signalled.
C20_RetryAfterSleep ==
    /\ [][pc["collector"] = "backoff" => pc'["collector"] \in {"backoff", "sleep"}]_vars
    /\ [][(pc'["collector"] = "fetch" /\ pc["collector"] # "fetch")
           => pc["collector"] = "sleep"]_vars
    /\ [](pc["collector"] = "done" => stop_event)
    /\ (pc["collector"] = "backoff") ~> (pc["collector"] = "fetch" \/ stop_event)

\* the try block is entered again after a cycle that raised in the transform
C20_Witness ==
    /\ pc["collector"] = "fetch"
    /\ ~stop_event
    /\ calls # <<>>
    /\ calls[Len(calls)].at = "build_blocks"


\* C21: when save_to_json raises in a cycle of the producer, the cycle ends
\* in the sleep of the normal interval and the cache holds, under the
\* pyramid's symbol, the pyramid and the series of that cycle.
C21_PersistenceFailure ==
    loc["collector"].resp = DashboardFailed =>
        /\ pc["collector"] = "sleep"
        /\ loc["collector"].pyr.symbol \in DOMAIN pyramid_cache
        /\ loc["collector"].pyr.symbol \in DOMAIN raw_data_cache
        /\ pyramid_cache[loc["collector"].pyr.symbol] = loc["collector"].pyr
        /\ raw_data_cache[loc["collector"].pyr.symbol] = loc["collector"].raw

\* a cycle of collector_loop that built blocks and whose save_to_json raised
C21_Witness ==
    /\ loc["collector"].resp = DashboardFailed
    /\ ~loc["collector"].initial
    /\ loc["collector"].pyr.blocks # <<>>


(***************************************************************************)
(* Properties of the cache under concurrent access                         *)
(***************************************************************************)
\* the collector takes a step of update_dashboard_data: update_symbol_data
\* or save_to_json
ReplaceStep ==
    /\ pc'["collector"] # pc["collector"]
    /\ pc["collector"] \in {"usd_pyr", "usd_raw", "usd_latest",
                            "stj_cache", "stj_files"}

\* C25: when a cycle of the producer replaces the entry of the active
\* instrument, latest_pyramid and latest_raw_data are set to the pyramid and
\* the series stored; a replace of another instrument leaves both unchanged.
C25_LatestFollowsActive ==
    [][ReplaceStep =>
          /\ (pc["collector"] = "usd_latest"
              /\ loc["collector"].cur = current_symbol)
             => /\ latest_pyramid' = loc["collector"].pyr
                /\ latest_raw_data' = loc["collector"].raw
          /\ loc["collector"].pyr.symbol # current_symbol
             => UNCHANGED <<latest_pyramid, latest_raw_data>>]_vars

\* the request thread holds the response of a request of this kind
Answered(kind) ==
    /\ pc["request"] = "respond"
    /\ loc["request"].req.kind = kind

\* thread t has run line 75 of update_symbol_data for pair and not yet line 76
Replacing(t, pair) ==
    /\ pc[t] = "usd_raw"
    /\ loc[t].cur = pair

\* C1: a reader of the pyramid and of the series of an instrument, running
\* while update_symbol_data(X, S1, P1) replaces the entry (P0, S0) the
\* collector stored before, never obtains the new pyramid P1 together with a
\* series other than S1.
C1_AtomicReplace ==
    (/\ Answered("entry")
     /\ requests = 1
     /\ Replacing("collector", loc["request"].req.pair)
     /\ loc["request"].resp[1].pyramid = loc["collector"].pyr)
    => loc["request"].resp[1].series = loc["collector"].raw

\* C2: when one read of an instrument (get_pyramid_for_symbol or
\* get_raw_data_for_symbol, the only request so far) and the collector's
\* update_symbol_data(X, S1, P1) have both returned, the cache entry of X is
\* (P1, S1).
C2_LazyCreation ==
    (/\ \/ Answered("pyramid")
        \/ Answered("chart")
     /\ requests = 1
     /\ pc["collector"] = "stj_cache"
     /\ loc["collector"].cur = loc["request"].req.pair)
    => /\ pyramid_cache[loc["request"].req.pair] = loc["collector"].pyr
       /\ raw_data_cache[loc["request"].req.pair] = loc["collector"].raw

\* C3: when get_pyramid_for_symbol(X) has returned to the pyramid endpoint
\* (the only request so far) and the collector is not between the two stores
\* of update_symbol_data for X, the cache holds both a pyramid and a series
\* map for X, and the series map of an empty pyramid is empty for every
\* timeframe.
C3_CreatesBoth ==
    (/\ Answered("pyramid")
     /\ requests = 1
     /\ ~Replacing("collector", loc["request"].req.pair))
    => LET pair == loc["request"].req.pair
       IN  /\ pair \in DOMAIN pyramid_cache
           /\ pair \in DOMAIN raw_data_cache
           /\ pyramid_cache[pair].blocks = <<>> => raw_data_cache[pair] = EmptyData

\* C4: when the cycle of a settings update (the only request so far) has
\* been abandoned by its exception handler after building pyramid P1 from
\* series S1, and the cache has a series map for the instrument, the cache
\* does not hold P1 next to a series map other than S1.
C4_NoPartialMutation ==
    (/\ Answered("settings")
     /\ requests = 1
     /\ loc["request"].resp = <<[error |-> "Fetch failed"]>>
     /\ loc["request"].pyr # EmptyDict
     /\ loc["request"].pyr.symbol \in DOMAIN pyramid_cache
     /\ loc["request"].pyr.symbol \in DOMAIN raw_data_cache
     /\ pyramid_cache[loc["request"].pyr.symbol] = loc["request"].pyr)
    => raw_data_cache[loc["request"].pyr.symbol] = loc["request"].raw

\* C5: the request thread never holds series it fetched from the terminal
\* and is never inside update_symbol_data.
C5_SingleProducer ==
    /\ loc["request"].raw = EmptyDict
    /\ pc["request"] \notin {"usd_pyr", "usd_raw", "usd_latest"}

\* candle r of timeframe tf is the candle the source has for X at its time
CandleOf(X, tf, r) ==
    LET b == Bar(X, tf, r.time)
    IN  r.open = b.open /\ r.high = b.high /\ r.low = b.low /\ r.close = b.close

\* block b was made from a candle the source has for X
BlockOf(X, b) ==
    LET c == Bar(X, b.tf, fromisoformat(b.time))
    IN  /\ b.O = Round5(c.open) /\ b.H = Round5(c.high)
        /\ b.L = Round5(c.low) /\ b.C = Round5(c.close)

\* C26: the series and the blocks stored under instrument X are made of
\* candles fetched for X, whatever settings updates run during a cycle.
C26_OwnCandles ==
    /\ \A X \in DOMAIN raw_data_cache : \A tf \in DOMAIN raw_data_cache[X] :
           \A i \in DOMAIN raw_data_cache[X][tf] :
               CandleOf(X, tf, raw_data_cache[X][tf][i])
    /\ \A X \in DOMAIN pyramid_cache :
           \A lb \in BlocksAt(pyramid_cache[X].blocks, 1) : BlockOf(X, lb[2])

\* the series map holds candles
HasCandles(raw) == \E tf \in DOMAIN raw : raw[tf] # EmptyFrame

\* the time of the newest candle of a series map: the M1 bar open when the
\* map was fetched
NewestTime(raw) ==
    LET times == UNION {{raw[tf][i].time : i \in DOMAIN raw[tf]} : tf \in DOMAIN raw}
    IN  CHOOSE t \in times : \A u \in times : u <= t

\* C27: no write replaces the series of an instrument by series of an
\* earlier fetch.
C27_NeverBackwards ==
    [][\A X \in DOMAIN raw_data_cache \cap DOMAIN raw_data_cache' :
          (HasCandles(raw_data_cache[X]) /\ HasCandles(raw_data_cache'[X]))
          => NewestTime(raw_data_cache'[X]) >= NewestTime(raw_data_cache[X])]_vars

\* the configurations the engine is given: the one of the start and those
\* of the settings updates
Configurations ==
    {[symbol |-> DefaultSymbol, style |-> PYRAMID_STYLES[DefaultStyle][1],
      structure |-> PYRAMID_STYLES[DefaultStyle][2]]}
    \cup {[symbol |-> pair, style |-> st,
           structure |-> PYRAMID_STYLES[StyleKey(st)][2]] :
             pair \in Symbols, st \in SettingStyles}

\* C28: in every pyramid the producer or a settings update stored, each
\* block at depth k has the timeframe of place k of the pyramid's structure,
\* and symbol, style and structure are those of one configuration.
C28_OneConfiguration ==
    \A X \in DOMAIN pyramid_cache :
        LET p == pyramid_cache[X]
        IN  p.blocks # <<>> =>
                /\ \A lb \in BlocksAt(p.blocks, 1) :
                       /\ lb[1] <= Len(p.structure)
                       /\ lb[2].tf = p.structure[lb[1]]
                /\ [symbol |-> p.symbol, style |-> p.style,
                    structure |-> p.structure] \in Configurations

\* C29: a pyramid with blocks in the cache is never replaced by a pyramid
\* without blocks; a cycle in which the source returns no candles leaves the
\* cache as it is.
C29_KeepsLastGood ==
    [][\A X \in DOMAIN pyramid_cache \cap DOMAIN pyramid_cache' :
          pyramid_cache[X].blocks # <<>> => pyramid_cache'[X].blocks # <<>>]_vars

\* C11: the block tree a call of build_pyramid_json returns is the tree of
\* its inputs: the series it was given and the structure and base timeframe
\* the engine had when the call was entered, whatever a settings update does
\* to the engine while the call runs.
C11_Deterministic ==
    \A t \in Threads :
        (pc[t] = "build_meta" /\ ~loc[t].base_missing)
        => loc[t].blocks =
               BaseBlocks([EngineCfg EXCEPT
                              !.pyramid_structure = loc[t].given.pyramid_structure,
                              !.base_tf = loc[t].given.base_tf],
                          loc[t].ann)

====
